---- MODULE Spec2Model ----
(***************************************************************************)
(* sFAB: an SSH fabric.  A Hub accepts agents, keeps a directory of        *)
(* registered connections, and dispatches messages to them one session at  *)
(* a time.  The model follows hub (Hub), connection, session, KeyMaster    *)
(* and Agent of the Go sources.                                            *)
(***************************************************************************)
EXTENDS Integers, Sequences, FiniteSets, TLC

(* ------------------------------ bounds --------------------------------- *)
\* number of transport connections the hub's listener accepts
MaxConns == 2
\* number of Hub.Send calls the clients make
MaxMsgs == 2
\* number of AuthorizeKey / DeauthorizeKey calls the operator makes
MaxAdmin == 2
MaxAcceptErrs == 2
\* requests of other types a peer sends on one session channel
MaxOther == 1
\* channels and global requests an agent sends to the Hub on one connection
MaxRefused == 1

Conns == 1..MaxConns
Msgs == 1..MaxMsgs
Idents == {"bob", "eve"}
Keys == {"K1", "K2"}
NilKey == "nil"

(* ------------------------------ KeyMaster ------------------------------ *)
UnknownDisposition == "Unknown"
Authorized == "Authorized"
NotAuthorized == "NotAuthorized"
\* "None": the map holds no record for (fingerprint, subject)
NoRecord == "None"
Dispositions == {NoRecord, UnknownDisposition, Authorized, NotAuthorized}

\* a disposition of Unknown overwrites what is on record (the downgrade the
\* guard in track prevents)
trackDowngrading(ks, key, disp, subject) ==
    [ks EXCEPT ![key][subject] = disp]

\* KeyMaster.track: make the record if missing, set the disposition unless
\* it is UnknownDisposition
track(ks, key, disp, subject) ==
    [ks EXCEPT ![key][subject] =
        IF disp # UnknownDisposition THEN disp
        ELSE IF @ = NoRecord THEN UnknownDisposition ELSE @]

\* any record at all for the key counts, whatever the subject
authorizedAnySubject(ks, subject, key) ==
    /\ key # NilKey
    /\ \E s \in Idents : ks[key][s] = Authorized

\* any record counts, whatever its disposition
authorizedAnyDisposition(ks, subject, key) ==
    /\ key # NilKey
    /\ ks[key][subject] # NoRecord

\* KeyMaster.Authorized / authorized: a record for exactly (key, subject)
\* whose disposition is Authorized
authorized(ks, subject, key) ==
    /\ key # NilKey
    /\ ks[key][subject] = Authorized

KMAuthorize(ks, key, subject) ==
    IF key # NilKey THEN track(ks, key, Authorized, subject) ELSE ks

\* Deauthorize leaves the records as they are
KMDeauthorizeNoop(ks, key, subject) == ks

KMDeauthorize(ks, key, subject) ==
    IF key # NilKey THEN track(ks, key, NotAuthorized, subject) ELSE ks

\* KeyMaster.publicKeyUsed: the key on record under the fingerprint the
\* handshake stored in the permissions, for the connecting user
publicKeyUsed(ks, fp, user) ==
    IF ks[fp][user] # NoRecord THEN fp ELSE NilKey

\* the handshake lets every key through
userKeyAcceptsAll(ks, isStrict, user, key) == TRUE

\* KeyMaster.userKeyCallback, after its call of track: the handshake is
\* refused iff strict and the key is not authorized for the user
userKeyAccepts(ks, isStrict, user, key) ==
    ~(isStrict /\ ~authorized(ks, user, key))

(* ------------------------- wire encodings ------------------------------ *)
\* binary.BigEndian.PutUint32(b, uint32(n)): the four bytes of n modulo 2^32
\* (\div and % round down, so a negative n yields its two's complement)
U32BE(n) ==
    << (n \div 16777216) % 256, (n \div 65536) % 256, (n \div 256) % 256, n % 256 >>

\* an unsigned 32-bit value as [hi, lo], standing for hi * 2^24 + lo
Wide(hi, lo) == [hi |-> hi, lo |-> lo]
WideOf(n) == Wide(n \div 16777216, n % 16777216)

\* binary.BigEndian.Uint32(b)
FromU32BE(b) == Wide(b[1], b[2] * 65536 + b[3] * 256 + b[4])

\* ssh.Marshal of struct{ Command string }: the length, then the bytes
Marshal(payload) == U32BE(Len(payload)) \o payload

\* ssh.Unmarshal into struct{ Value []byte }: <<ok, bytes>>
Unmarshal(b) ==
    IF Len(b) < 4 THEN <<FALSE, <<>>>>
    ELSE IF WideOf(Len(b) - 4) # FromU32BE(b) THEN <<FALSE, <<>>>>
    ELSE <<TRUE, SubSeq(b, 5, Len(b))>>

\* exited: the exit-status payload, uint32(rc) big-endian
exited(rc) == U32BE(rc)

\* session.serviceRequests: int(binary.BigEndian.Uint32(r.Payload))
exitCode(b) == FromU32BE(b)

\* bufio.ScanLines: drop one trailing carriage return
dropCR(line) ==
    IF Len(line) > 0 /\ line[Len(line)] = "\r"
    THEN SubSeq(line, 1, Len(line) - 1) ELSE line

RECURSIVE scanFrom(_, _, _)
scanFrom(data, i, line) ==
    IF i > Len(data)
    THEN (IF Len(line) > 0 THEN << dropCR(line) >> ELSE << >>)
    ELSE IF data[i] = "\n"
         THEN << dropCR(line) >> \o scanFrom(data, i + 1, << >>)
         ELSE scanFrom(data, i + 1, Append(line, data[i]))

\* a Scanner that yields an empty token after a trailing newline
ScanLinesTrailing(data) ==
    scanFrom(data, 1, << >>) \o
        (IF Len(data) > 0 /\ data[Len(data)] = "\n" THEN << << >> >> ELSE << >>)

\* the tokens bufio.Scanner yields for a stream read to its end
ScanLines(data) == scanFrom(data, 1, << >>)

(* ------------------------------ inputs --------------------------------- *)
Payloads == { << >>, << 104, 105 >> }

\* what a Handler does: bytes written to stdout and stderr, its return code
\* and whether it returns an error
slack == [out |-> << >>, err |-> << >>, rc |-> 0, fail |-> FALSE]
Handlers ==
    { slack,
      [out |-> << "a", "\n", "b" >>, err |-> << >>, rc |-> 0, fail |-> FALSE],
      [out |-> << "a", "\n" >>, err |-> << "e" >>, rc |-> 2, fail |-> FALSE],
      [out |-> << >>, err |-> << "e" >>, rc |-> -1, fail |-> TRUE] }

fromStdout == "stdout"
fromStderr == "stderr"
fromExit == "exit"
fromError == "error"
Premature == "agent disconnected prematurely"
\* the run-time panics of Go
SendOnClosed == "send on closed channel"
CloseOfClosed == "close of closed channel"

(* ------------------------------ state ---------------------------------- *)
VARIABLES
    strict,      \* KeyMaster.strict
    lk,          \* Hub.lk: the Send call that holds the mutex (0: free)
    listener,    \* Hub.listener: open or closed, and the errors Accept returned
    keys,        \* KeyMaster.keys: fingerprint -> subject -> disposition
    agents,      \* Hub.agents: identity -> connection (0: no entry)
    awaits,      \* Hub.awaits: identity -> await channel (0: no entry); the
                 \* channels made for an identity are numbered 1, 2, ...
    chClosed,    \* the await channels <<identity, number>> that are closed
    nextCh,      \* per identity: how many await channels have been made
    hubpc,       \* Hub.Serve: "accept", "register" or "onconnect"
    hubconn,     \* the connection Hub.Serve is handling
    hooks,       \* the OnConnect / OnDisconnect calls made, in order
    panic,       \* the panic that has ended the hub process ("": none)
    admin,       \* AuthorizeKey / DeauthorizeKey calls made so far
    agentKeys,   \* Agent.keys, the host keys authorized since the last
                 \* AcceptAnyHostKey, and the verdict on the last host key
    authCalls,   \* the <<agent, key>> AuthorizeKey has been called with
    lastCall,    \* per key and subject, the latest of "auth" (AuthorizeKey)
                 \* and "deauth" (DeauthorizeKey), "none" before any call
    handler,     \* the Handler the agents pass to Connect
    conn,        \* per connection: st, id, key (offered), regkey (c.key),
                 \* authed (the key was Authorized for id when it dialed in)
    alive,       \* per connection: the SSH transport works
    hangup,      \* per connection: the hangup channel [buf, closed]
    hungup,      \* per connection: c.hungup
    monpc,       \* per connection: connection.monitor
    monReap,     \* per connection: the reapers monitor has yet to signal
    srvpc,       \* per connection: connection.Serve / run / session.finish
    cur,         \* per connection: the message being run (0: none)
    final,       \* per connection: the terminal response finish has chosen
    reapers,     \* per connection: c.reapers
    inbox,       \* per connection: the messages its mailbox has accepted
    agpc,        \* per connection: the agent's loop in Agent.Connect
    agmsg,       \* per connection: the message whose session the agent serves
    send,        \* per message: the Send call [pc, id, payload, conn, offer]
    reading,     \* per message: the caller receives from the responses channel
    resp,        \* per message: the responses received so far
    respClosed,  \* per message: the responses channel is closed
    outQ,        \* per message: stdout lines read but not yet emitted
    errQ,        \* per message: stderr lines read but not yet emitted
    exitSt,      \* per message: session.exit [st, code, err], st "none", "pending", "taken"
    reaperSt,    \* per message: its reaper: "none", "open", "leak", "closed"
    handled      \* per message: the Handler invocations <<conn, payload>>

crashed == panic # ""

hubData == << strict, listener, keys, agents, awaits, chClosed, nextCh, hubpc, hubconn,
              hooks, panic, admin, authCalls, lastCall, handler >>
hubVars == << lk, hubData >>
connVars == << conn, alive, hangup, hungup, monpc, monReap, srvpc, cur, final,
               reapers, inbox, agpc, agmsg >>
msgVars == << send, reading, resp, respClosed, outQ, errQ, exitSt, reaperSt,
              handled >>
vars == << hubVars, connVars, msgVars, agentKeys >>

NoConn == [st |-> "idle", id |-> "", key |-> NilKey, regkey |-> NilKey,
           authed |-> FALSE, refused |-> << >>]
NoSend == [pc |-> "idle", id |-> "", payload |-> << >>, conn |-> 0,
           offer |-> FALSE]
\* Response{from, text, err, rc}
Response(from, text, err, rc) == [from |-> from, text |-> text, err |-> err, rc |-> rc]
NoFinal == Response("init", << >>, "", WideOf(0))
\* one request read by session.serviceRequests: its type, whether the sender
\* wants a reply, and the reply given ("" for none)
request(type, want) ==
    [type |-> type, want |-> want,
     answer |-> IF type \notin {"exit-status", "exit-signal"} /\ want
                THEN "false" ELSE ""]
NoExit == [st |-> "none", code |-> WideOf(0), err |-> "", seen |-> << >>]

NoKeys == [k \in Keys |-> [s \in Idents |-> NoRecord]]

\* the host keys a hub may present, the addresses an agent dials, the remote
\* addresses of the sockets, and the subjects of Agent.AuthorizeKey
HostKeys == {"H1", "H2"}
DialHosts == {"hub:4000", "alt:4000"}
Remotes == {"10.0.0.1:4000", "10.0.0.2:4000"}
HostSubjects == DialHosts \cup Remotes \cup {"*"}
NoHostKeys == [k \in HostKeys |-> [s \in HostSubjects |-> NoRecord]]
NoVerdict == [host |-> "", remote |-> "", key |-> NilKey, ok |-> FALSE,
              done |-> FALSE]

\* a new Agent: keys is nil
NoAgentKeys == [nil |-> TRUE, recs |-> NoHostKeys, since |-> {},
                verdict |-> NoVerdict]

\* Hub after Listen: empty directory, no connection, no Send made yet.  hs:
\* the Handlers the agents may run; ks: the keys authorized before Listen;
\* rd: whether the callers of Send receive from the channel as soon as they
\* hold it (else they start with IgnoreReplies).
InitWith(hs, stricts, ks, rd) ==
    /\ strict \in stricts
    /\ lk = 0
    /\ agentKeys = NoAgentKeys
    /\ listener = [st |-> "open", errs |-> 0]
    /\ keys = ks
    /\ agents = [i \in Idents |-> 0]
    /\ awaits = [i \in Idents |-> 0]
    /\ chClosed = {}
    /\ nextCh = [i \in Idents |-> 0]
    /\ hubpc = "accept"
    /\ hubconn = 0
    /\ hooks = << >>
    /\ panic = ""
    /\ admin = 0
    /\ authCalls = { ak \in Idents \X Keys : ks[ak[2]][ak[1]] = Authorized }
    /\ lastCall = [k \in Keys |-> [s \in Idents |->
                      IF ks[k][s] = Authorized THEN "auth" ELSE "none"]]
    /\ handler \in hs
    /\ conn = [c \in Conns |-> NoConn]
    /\ alive = [c \in Conns |-> FALSE]
    /\ hangup = [c \in Conns |-> [buf |-> 0, closed |-> FALSE]]
    /\ hungup = [c \in Conns |-> FALSE]
    /\ monpc = [c \in Conns |-> "idle"]
    /\ monReap = [c \in Conns |-> << >>]
    /\ srvpc = [c \in Conns |-> "idle"]
    /\ cur = [c \in Conns |-> 0]
    /\ final = [c \in Conns |-> NoFinal]
    /\ reapers = [c \in Conns |-> << >>]
    /\ inbox = [c \in Conns |-> << >>]
    /\ agpc = [c \in Conns |-> "idle"]
    /\ agmsg = [c \in Conns |-> 0]
    /\ send = [m \in Msgs |-> NoSend]
    /\ reading = [m \in Msgs |-> rd]
    /\ resp = [m \in Msgs |-> << >>]
    /\ respClosed = [m \in Msgs |-> FALSE]
    /\ outQ = [m \in Msgs |-> << >>]
    /\ errQ = [m \in Msgs |-> << >>]
    /\ exitSt = [m \in Msgs |-> NoExit]
    /\ reaperSt = [m \in Msgs |-> "none"]
    /\ handled = [m \in Msgs |-> << >>]

Init == InitWith({slack}, BOOLEAN, NoKeys, TRUE)

\* the hub of the end-to-end tests: strict, with K1 authorized for bob
\* before Listen; the agents run any of the Handlers
InitSess == InitWith(Handlers, {TRUE}, KMAuthorize(NoKeys, "K1", "bob"), FALSE)

(* ------------------------------ Hub ------------------------------------ *)
\* connections are numbered in the order the listener accepts them
NextConn(c) ==
    /\ conn[c].st = "idle"
    /\ \A d \in Conns : d < c => conn[d].st # "idle"

\* Hub.AuthorizeKey
AuthorizeKey(agent, key) ==
    /\ ~crashed
    /\ lk = 0
    /\ admin < MaxAdmin
    /\ admin' = admin + 1
    /\ keys' = KMAuthorize(keys, key, agent)
    /\ authCalls' = authCalls \cup { << agent, key >> }
    /\ lastCall' = [lastCall EXCEPT ![key][agent] = "auth"]
    /\ UNCHANGED << strict, listener, lk, agents, awaits, chClosed, nextCh, hubpc, hubconn,
                    hooks, panic, handler, connVars, msgVars, agentKeys >>

\* Hub.DeauthorizeKey
DeauthorizeKey(agent, key) ==
    /\ ~crashed
    /\ lk = 0
    /\ admin < MaxAdmin
    /\ admin' = admin + 1
    /\ keys' = KMDeauthorize(keys, key, agent)
    /\ lastCall' = [lastCall EXCEPT ![key][agent] = "deauth"]
    /\ UNCHANGED << authCalls, strict, listener, lk, agents, awaits, chClosed, nextCh, hubpc, hubconn,
                    hooks, panic, handler, connVars, msgVars, agentKeys >>

\* Hub.Serve, accept and ssh.NewServerConn: an agent dials in with an
\* identity and a key; the handshake runs KeyMaster.userKeyCallback.  A
\* refused handshake makes the agent's Connect return an error.
Handshake(c, user, key) ==
    /\ ~crashed
    /\ hubpc = "accept"
    /\ listener.st = "open"
    /\ NextConn(c)
    /\ keys' = track(keys, key, UnknownDisposition, user)
    /\ IF userKeyAccepts(keys', strict, user, key)
       THEN /\ conn' = [conn EXCEPT ![c] = [st |-> "handshaken", id |-> user,
                                            key |-> key, regkey |-> NilKey,
                                            authed |-> keys[key][user] = Authorized,
                                            refused |-> << >>]]
            /\ alive' = [alive EXCEPT ![c] = TRUE]
            /\ agpc' = [agpc EXCEPT ![c] = "wait"]
            /\ hubpc' = "register"
            /\ hubconn' = c
       ELSE /\ conn' = [conn EXCEPT ![c] = [st |-> "rejected", id |-> user,
                                            key |-> key, regkey |-> NilKey,
                                            authed |-> keys[key][user] = Authorized,
                                            refused |-> << >>]]
            /\ UNCHANGED << alive, agpc, hubpc, hubconn >>
    /\ UNCHANGED << strict, listener, lk, agents, awaits, chClosed, nextCh, hooks, panic,
                    admin, lastCall, authCalls, handler, hangup, hungup, monpc, monReap, srvpc,
                    cur, final, reapers, inbox, agmsg, msgVars, agentKeys >>

\* KeyMaster.track, the store of a new record: m.keys[k][s] =
\* &authorization{disposition: UnknownDisposition}, made after the test
\* that found no record
trackCreate(ks, key, subject) == [ks EXCEPT ![key][subject] = UnknownDisposition]

\* KeyMaster.track: _, exists := m.keys[k], the map of the subjects of a
\* fingerprint, made with its first record
hasMap(ks, key) == \E s \in DOMAIN ks[key] : ks[key][s] # NoRecord

\* KeyMaster.track, the store of a new map of subjects: m.keys[k] =
\* make(map[string]*authorization), made after the test that found none
trackMake(ks, key) == [ks EXCEPT ![key] = [s \in DOMAIN @ |-> NoRecord]]

\* KeyMaster.userKeyCallback in the goroutine of Hub.Serve, which takes no
\* lock: track tests m.keys[k], then m.keys[k][s], and finds no record
TrackObserve(c, user, key) ==
    /\ ~crashed
    /\ hubpc = "accept"
    /\ listener.st = "open"
    /\ NextConn(c)
    /\ keys[key][user] = NoRecord
    /\ conn' = [conn EXCEPT ![c] = [st |-> IF hasMap(keys, key) THEN "tracking"
                                           ELSE "mapping",
                                    id |-> user, key |-> key,
                                    regkey |-> NilKey, authed |-> FALSE,
                                    refused |-> << >>]]
    /\ hubpc' = "handshake"
    /\ hubconn' = c
    /\ UNCHANGED << strict, listener, lk, keys, agents, awaits, chClosed, nextCh, hooks,
                    panic, admin, lastCall, authCalls, handler, alive, hangup,
                    hungup, monpc, monReap, srvpc, cur, final, reapers, inbox,
                    agpc, agmsg, msgVars, agentKeys >>

\* KeyMaster.track goes on after it found no map of subjects for the
\* fingerprint: it stores a new one, whatever AuthorizeKey or DeauthorizeKey
\* stored meanwhile, and finds no record in it
TrackMake(c) ==
    /\ ~crashed
    /\ hubpc = "handshake"
    /\ hubconn = c
    /\ conn[c].st = "mapping"
    /\ keys' = trackMake(keys, conn[c].key)
    /\ conn' = [conn EXCEPT ![c].st = "tracking"]
    /\ UNCHANGED << strict, lk, listener, agents, awaits, chClosed, nextCh,
                    hubpc, hubconn, hooks, panic, admin, lastCall, authCalls,
                    handler, alive, hangup, hungup, monpc, monReap, srvpc, cur,
                    final, reapers, inbox, agpc, agmsg, msgVars, agentKeys >>

\* KeyMaster.userKeyCallback, the rest of it: track stores the record it
\* found missing, whatever AuthorizeKey or DeauthorizeKey stored meanwhile,
\* and the key is accepted or refused
TrackCreate(c) ==
    /\ ~crashed
    /\ hubpc = "handshake"
    /\ hubconn = c
    /\ conn[c].st = "tracking"
    /\ keys' = trackCreate(keys, conn[c].key, conn[c].id)
    /\ IF userKeyAccepts(keys', strict, conn[c].id, conn[c].key)
       THEN /\ conn' = [conn EXCEPT ![c].st = "handshaken"]
            /\ alive' = [alive EXCEPT ![c] = TRUE]
            /\ agpc' = [agpc EXCEPT ![c] = "wait"]
            /\ hubpc' = "register"
            /\ UNCHANGED hubconn
       ELSE /\ conn' = [conn EXCEPT ![c].st = "rejected"]
            /\ hubpc' = "accept"
            /\ hubconn' = 0
            /\ UNCHANGED << alive, agpc >>
    /\ UNCHANGED << strict, listener, lk, agents, awaits, chClosed, nextCh, hooks, panic,
                    admin, lastCall, authCalls, handler, hangup, hungup, monpc,
                    monReap, srvpc, cur, final, reapers, inbox, agmsg, msgVars, agentKeys >>

\* Hub.Serve: h.listener.Accept() returns an error, on a closed listener
\* every time; the error is logged and the loop goes on (continue)
AcceptFails ==
    /\ ~crashed
    /\ hubpc = "accept"
    /\ listener.errs < MaxAcceptErrs
    /\ listener' = [listener EXCEPT !.errs = @ + 1]
    /\ hubpc' = "accept"
    /\ UNCHANGED << strict, lk, keys, agents, awaits, chClosed, nextCh, hubconn,
                    hooks, panic, admin, lastCall, authCalls, handler, connVars,
                    msgVars, agentKeys >>

\* the listening socket is closed under Hub.Serve
ListenerCloses ==
    /\ listener.st = "open"
    /\ listener' = [listener EXCEPT !.st = "closed"]
    /\ UNCHANGED << strict, lk, keys, agents, awaits, chClosed, nextCh, hubpc,
                    hubconn, hooks, panic, admin, lastCall, authCalls, handler,
                    connVars, msgVars, agentKeys >>

\* the directory takes a second connection under a name it already holds
duplicateIgnored(name) == FALSE

\* Hub.register: "agent already registered"
duplicate(name) == agents[name] # 0

\* a new await channel is made whether or not one is on record
awaitChanFresh(name) == nextCh[name] + 1

\* the await channel register closes: the one on record, else a new one
awaitChan(name) == IF awaits[name] # 0 THEN awaits[name] ELSE nextCh[name] + 1

\* Hub.register and the rest of the iteration of Hub.Serve up to the start
\* of connection.Serve.  A duplicate is refused and its transport closed.
register(c) ==
    /\ ~crashed
    /\ lk = 0
    /\ hubpc = "register"
    /\ hubconn = c
    /\ LET name == conn[c].id IN
       IF duplicate(name)
       THEN /\ conn' = [conn EXCEPT ![c].st = "refused"]
            /\ alive' = [alive EXCEPT ![c] = FALSE]
            /\ hubpc' = "accept"
            /\ hubconn' = 0
            /\ UNCHANGED << agents, awaits, chClosed, nextCh, panic, srvpc,
                            monpc >>
       ELSE /\ agents' = [agents EXCEPT ![name] = c]
            /\ conn' = [conn EXCEPT ![c].st = "registered",
                                    ![c].regkey = publicKeyUsed(keys, conn[c].key, name)]
            /\ awaits' = [awaits EXCEPT ![name] = awaitChan(name)]
            /\ nextCh' = [nextCh EXCEPT ![name] = awaitChan(name)]
            /\ IF << name, awaitChan(name) >> \in chClosed
               THEN panic' = CloseOfClosed /\ UNCHANGED chClosed
               ELSE /\ chClosed' = chClosed \cup { << name, awaitChan(name) >> }
                    /\ UNCHANGED panic
            /\ srvpc' = [srvpc EXCEPT ![c] = "recv"]
            /\ monpc' = [monpc EXCEPT ![c] = "select"]
            /\ hubpc' = "onconnect"
            /\ UNCHANGED << alive, hubconn >>
    /\ UNCHANGED << strict, listener, lk, keys, hooks, admin, lastCall, authCalls, handler, hangup, hungup,
                    monReap, cur, final, reapers, inbox, agpc, agmsg, msgVars, agentKeys >>

\* Hub.Serve: the OnConnect hook, called after connection.Serve was started
OnConnect(c) ==
    /\ ~crashed
    /\ hubpc = "onconnect"
    /\ hubconn = c
    /\ hooks' = Append(hooks, << "connect", c >>)
    /\ hubpc' = "accept"
    /\ hubconn' = 0
    /\ UNCHANGED << strict, listener, lk, keys, agents, awaits, chClosed, nextCh, panic,
                    admin, lastCall, authCalls, handler, connVars, msgVars, agentKeys >>

\* Hub.Await, when it has to make the channel
Await(agent) ==
    /\ ~crashed
    /\ lk = 0
    /\ awaits[agent] = 0
    /\ awaits' = [awaits EXCEPT ![agent] = nextCh[agent] + 1]
    /\ nextCh' = [nextCh EXCEPT ![agent] = @ + 1]
    /\ UNCHANGED << strict, listener, lk, keys, agents, chClosed, hubpc, hubconn, hooks,
                    panic, admin, lastCall, authCalls, handler, connVars, msgVars, agentKeys >>

\* Hub.KnowsAgent
KnowsAgent(agent) == agents[agent] # 0

\* the done closure leaves the directory entry in place
doneKeepsAgent(ag, name) == ag

\* the done closure of Hub.register: delete(h.agents, name)
doneAgents(ag, name) == [ag EXCEPT ![name] = 0]

\* the done closure forgets the directory entry and keeps the await channel
doneKeepsAwait(aw, name) == aw

\* the done closure of Hub.register: delete(h.awaits, name)
doneAwaits(aw, name) == [aw EXCEPT ![name] = 0]

(* ------------------------------ Hub.Send ------------------------------- *)
\* Send calls are numbered in the order they start
NextSend(m) ==
    /\ send[m].pc = "idle"
    /\ \A n \in Msgs : n < m => send[n].pc # "idle"

\* the first connection stands in for a missing directory entry
lookupAny(agent) == IF agents[agent] # 0 THEN agents[agent] ELSE 1

\* Hub.Send: c, ok := h.agents[agent] (0: not ok)
lookup(agent) == agents[agent]

\* Hub.Send keeps the mutex until it returns (defer h.lock.Unlock())
lockHeldUntilReturn(m) == m

\* Hub.Send: h.lock.Unlock() follows the lookup in h.agents at once, so the
\* authorization check and the select are made without the mutex
lockAfterLookup(m) == 0

\* h.lock.Unlock() by the Send call m, if it holds the mutex
unlock(m) == IF lk = m THEN 0 ELSE lk

\* Hub.Send, the lookup under the lock; "agent not found" if there is no entry
SendLookup(m, agent, payload) ==
    /\ ~crashed
    /\ NextSend(m)
    /\ lk = 0
    /\ lk' = IF lookup(agent) = 0 THEN 0 ELSE lockAfterLookup(m)
    /\ send' = [send EXCEPT ![m] =
                  [pc |-> IF lookup(agent) = 0 THEN "notfound" ELSE "auth",
                   id |-> agent, payload |-> payload, conn |-> lookup(agent),
                   offer |-> FALSE]]
    /\ UNCHANGED << hubData, connVars, reading, resp, respClosed, outQ, errQ,
                    exitSt, reaperSt, handled, agentKeys >>

\* Hub.Send: h.keys.Authorized(agent, c.key), else "agent found but not
\* authorized"
SendAuth(m) ==
    /\ ~crashed
    /\ send[m].pc = "auth"
    /\ LET ok == authorized(keys, send[m].id, conn[send[m].conn].regkey) IN
       /\ send' = [send EXCEPT ![m].pc = IF ok THEN "enqueue" ELSE "notauth",
                               ![m].offer = ok]
       /\ lk' = IF ok THEN lk ELSE unlock(m)
    /\ UNCHANGED << hubData, connVars, reading, resp, respClosed, outQ, errQ,
                    exitSt, reaperSt, handled, agentKeys >>

\* connection.Serve takes the next message while a run is under way
receivingAlways(c) == srvpc[c] \notin {"idle", "exit"}

\* connection.Serve is at the receive of its range over c.messages: runs
\* are made one after the other, each to its end
receiving(c) == srvpc[c] = "recv"

\* Hub.Send: case c.messages <- msg, met by the receive of connection.Serve;
\* the responses channel is returned
SendEnqueue(m) ==
    /\ ~crashed
    /\ send[m].offer
    /\ LET c == send[m].conn IN
       /\ receiving(c)
       /\ srvpc' = [srvpc EXCEPT ![c] = "open"]
       /\ cur' = [cur EXCEPT ![c] = m]
       /\ inbox' = [inbox EXCEPT ![c] = Append(@, m)]
    /\ send' = [send EXCEPT ![m].pc = IF @ = "enqueue" THEN "ok" ELSE @,
                            ![m].offer = FALSE]
    /\ lk' = unlock(m)
    /\ UNCHANGED << hubData, conn, alive, hangup, hungup, monpc, monReap, final,
                    reapers, agpc, agmsg, reading, resp, respClosed, outQ, errQ,
                    exitSt, reaperSt, handled, agentKeys >>

\* the timeout fires and the message stays offered to the mailbox
timeoutKeepsOffer(m) == TRUE

\* Hub.Send: the select is over once a case is taken, so a Send that times
\* out no longer offers its message to the mailbox
offeredAfterTimeout(m) == FALSE

\* Hub.Send: case <-time.After(timeout): "agent did not respond within ..."

SendTimeout(m) ==
    /\ ~crashed
    /\ send[m].pc = "enqueue"
    /\ send' = [send EXCEPT ![m].pc = "timeout",
                            ![m].offer = offeredAfterTimeout(m)]
    /\ lk' = unlock(m)
    /\ UNCHANGED << hubData, connVars, reading, resp, respClosed, outQ, errQ,
                    exitSt, reaperSt, handled, agentKeys >>

\* the caller starts to receive from the responses channel (Hub.IgnoreReplies)
IgnoreReplies(m) ==
    /\ ~crashed
    /\ send[m].pc = "ok"
    /\ ~reading[m]
    /\ reading' = [reading EXCEPT ![m] = TRUE]
    /\ UNCHANGED << hubVars, connVars, send, resp, respClosed, outQ, errQ,
                    exitSt, reaperSt, handled, agentKeys >>

(* ------------------------------ connection ----------------------------- *)
\* connection.Hangup: a send on the hangup channel, then its close; a second
\* call sends on the closed channel, which panics (c.hungup stays false)
Hangup(c) ==
    /\ IF hungup[c]
       THEN UNCHANGED << hangup, panic >>
       ELSE IF hangup[c].closed
            THEN panic' = SendOnClosed /\ UNCHANGED hangup
            ELSE /\ hangup' = [hangup EXCEPT ![c] = [buf |-> 1, closed |-> TRUE]]
                 /\ UNCHANGED panic
    /\ hungup' = [hungup EXCEPT ![c] = FALSE]

\* connection.monitor, case <-tick.C with a failing keepalive: the ticker is
\* stopped and Hangup called
MonitorKeepalive(c) ==
    /\ ~crashed
    /\ monpc[c] = "select"
    /\ ~alive[c]
    /\ Hangup(c)
    /\ monpc' = [monpc EXCEPT ![c] = "stopped"]
    /\ UNCHANGED << strict, listener, lk, keys, agents, awaits, chClosed, nextCh, hubpc,
                    hubconn, hooks, admin, lastCall, authCalls, handler, conn, alive, monReap, srvpc,
                    cur, final, reapers, inbox, agpc, agmsg, msgVars, agentKeys >>

\* connection.monitor, case <-c.hangup, and c.done(): under the hub's lock
\* the OnDisconnect hook runs and the directory forgets the name
MonitorHangup(c) ==
    /\ ~crashed
    /\ lk = 0
    /\ monpc[c] \in {"select", "stopped"}
    /\ hangup[c].buf > 0 \/ hangup[c].closed
    /\ hangup' = [hangup EXCEPT ![c].buf = 0]
    /\ hooks' = Append(hooks, << "disconnect", c >>)
    /\ awaits' = doneAwaits(awaits, conn[c].id)
    /\ agents' = doneAgents(agents, conn[c].id)
    /\ monpc' = [monpc EXCEPT ![c] = "close"]
    /\ UNCHANGED << strict, listener, lk, keys, chClosed, nextCh, hubpc, hubconn, panic,
                    admin, lastCall, authCalls, handler, conn, alive, hungup, monReap, srvpc, cur,
                    final, reapers, inbox, agpc, agmsg, msgVars, agentKeys >>

\* the done closure calls the hook without taking the hub's mutex
doneNoLock(c) == 0
\* the done closure: h.lock(), kept until the closure returns; the holder is
\* written as the negated connection
doneLock(c) == 0 - c

\* connection.monitor, case <-c.hangup, c.done() up to the hook: the hub's
\* mutex is taken and OnDisconnect called
MonitorDoneCall(c) ==
    /\ ~crashed
    /\ lk = 0
    /\ monpc[c] \in {"select", "stopped"}
    /\ hangup[c].buf > 0 \/ hangup[c].closed
    /\ hangup' = [hangup EXCEPT ![c].buf = 0]
    /\ lk' = doneLock(c)
    /\ hooks' = Append(hooks, << "disconnect", c >>)
    /\ monpc' = [monpc EXCEPT ![c] = "done"]
    /\ UNCHANGED << strict, listener, keys, agents, awaits, chClosed, nextCh, hubpc,
                    hubconn, panic, admin, lastCall, authCalls, handler, conn, alive,
                    hungup, monReap, srvpc, cur, final, reapers, inbox, agpc, agmsg,
                    msgVars, agentKeys >>

\* c.done() after the hook has returned: delete(h.awaits, name),
\* delete(h.agents, name) and the deferred h.unlock()
MonitorDoneReturn(c) ==
    /\ ~crashed
    /\ monpc[c] = "done"
    /\ awaits' = doneAwaits(awaits, conn[c].id)
    /\ agents' = doneAgents(agents, conn[c].id)
    /\ lk' = 0
    /\ monpc' = [monpc EXCEPT ![c] = "close"]
    /\ UNCHANGED << strict, listener, keys, chClosed, nextCh, hubpc, hubconn, hooks,
                    panic, admin, lastCall, authCalls, handler, conn, alive, hangup,
                    hungup, monReap, srvpc, cur, final, reapers, inbox, agpc, agmsg,
                    msgVars, agentKeys >>

\* connection.monitor: c.ssh.Close(), then the range over c.reapers begins
MonitorClose(c) ==
    /\ ~crashed
    /\ monpc[c] = "close"
    /\ alive' = [alive EXCEPT ![c] = FALSE]
    /\ monReap' = [monReap EXCEPT ![c] = reapers[c]]
    /\ monpc' = [monpc EXCEPT ![c] = IF reapers[c] = << >> THEN "exit" ELSE "reap"]
    /\ UNCHANGED << hubVars, conn, hangup, hungup, srvpc, cur, final, reapers,
                    inbox, agpc, agmsg, msgVars, agentKeys >>

\* connection.monitor: reaper <- 1; close(reaper), received either by the
\* select of session.finish or by the goroutine finish left behind
MonitorReap(c) ==
    /\ ~crashed
    /\ monpc[c] = "reap"
    /\ LET r == Head(monReap[c]) IN
       /\ \/ /\ srvpc[c] = "select"
             /\ cur[c] = r
             /\ final' = [final EXCEPT ![c] = Response(fromError, << >>, Premature, WideOf(0))]
             /\ srvpc' = [srvpc EXCEPT ![c] = "wait"]
          \/ /\ reaperSt[r] = "leak"
             /\ UNCHANGED << final, srvpc >>
       /\ reaperSt' = [reaperSt EXCEPT ![r] = "closed"]
    /\ monReap' = [monReap EXCEPT ![c] = Tail(@)]
    /\ monpc' = [monpc EXCEPT ![c] = IF Tail(monReap[c]) = << >> THEN "exit" ELSE "reap"]
    /\ UNCHANGED << hubVars, conn, alive, hangup, hungup, cur, reapers, inbox,
                    agpc, agmsg, send, reading, resp, respClosed, outQ, errQ,
                    exitSt, handled, agentKeys >>

\* connection.run: c.ssh.OpenChannel("session", nil).  The agent accepts the
\* channel when its loop is waiting for one; on a dead transport the call
\* fails and run returns the error.
RunOpen(c) ==
    /\ ~crashed
    /\ srvpc[c] = "open"
    /\ IF alive[c]
       THEN /\ agpc[c] = "wait"
            /\ agpc' = [agpc EXCEPT ![c] = "accepted"]
            /\ agmsg' = [agmsg EXCEPT ![c] = cur[c]]
            /\ srvpc' = [srvpc EXCEPT ![c] = "start"]
       ELSE /\ srvpc' = [srvpc EXCEPT ![c] = "hangup"]
            /\ UNCHANGED << agpc, agmsg >>
    /\ UNCHANGED << hubVars, conn, alive, hangup, hungup, monpc, monReap, cur,
                    final, reapers, inbox, msgVars, agentKeys >>

\* connection.run: c.ssh.OpenChannel fails on a transport that works (the
\* peer rejects the channel); run returns the error as for any other
RunOpenRejected(c) ==
    /\ ~crashed
    /\ srvpc[c] = "open"
    /\ alive[c]
    /\ srvpc' = [srvpc EXCEPT ![c] = "hangup"]
    /\ UNCHANGED << hubVars, conn, alive, hangup, hungup, monpc, monReap, cur,
                    final, reapers, inbox, agpc, agmsg, msgVars, agentKeys >>

\* session.start: the "exec" request with the marshalled payload; the agent
\* replies true.  On a dead transport start closes the channel and run
\* returns the error.
RunStart(c) ==
    /\ ~crashed
    /\ srvpc[c] = "start"
    /\ IF alive[c]
       THEN /\ agpc' = [agpc EXCEPT ![c] = "exec"]
            /\ srvpc' = [srvpc EXCEPT ![c] = "append"]
       ELSE /\ srvpc' = [srvpc EXCEPT ![c] = "hangup"]
            /\ UNCHANGED agpc
    /\ UNCHANGED << hubVars, conn, alive, hangup, hungup, monpc, monReap, cur,
                    final, reapers, inbox, agmsg, msgVars, agentKeys >>

\* session.start: the peer answers the "exec" request with failure
\* ("unspecified failure"); start closes the session channel, which ends the
\* peer's range over its requests, and run returns the error
RunStartRefused(c) ==
    /\ ~crashed
    /\ srvpc[c] = "start"
    /\ alive[c]
    /\ agpc[c] = "accepted"
    /\ agpc' = [agpc EXCEPT ![c] = "wait"]
    /\ srvpc' = [srvpc EXCEPT ![c] = "hangup"]
    /\ UNCHANGED << hubVars, conn, alive, hangup, hungup, monpc, monReap, cur,
                    final, reapers, inbox, agmsg, msgVars, agentKeys >>

\* connection.run: the reaper is made and appended to c.reapers, and
\* session.finish starts the two drains
RunAppend(c) ==
    /\ ~crashed
    /\ srvpc[c] = "append"
    /\ reapers' = [reapers EXCEPT ![c] = Append(@, cur[c])]
    /\ reaperSt' = [reaperSt EXCEPT ![cur[c]] = "open"]
    /\ srvpc' = [srvpc EXCEPT ![c] = "select"]
    /\ UNCHANGED << hubVars, conn, alive, hangup, hungup, monpc, monReap, cur,
                    final, inbox, agpc, agmsg, send, reading, resp, respClosed,
                    outQ, errQ, exitSt, handled, agentKeys >>

\* connection.Serve: run returned an error; Hangup, and the loop is left
RunHangup(c) ==
    /\ ~crashed
    /\ srvpc[c] = "hangup"
    /\ Hangup(c)
    /\ srvpc' = [srvpc EXCEPT ![c] = "exit"]
    /\ UNCHANGED << strict, listener, lk, keys, agents, awaits, chClosed, nextCh, hubpc,
                    hubconn, hooks, admin, lastCall, authCalls, handler, conn, alive, monpc, monReap,
                    cur, final, reapers, inbox, agpc, agmsg, msgVars, agentKeys >>

\* every status taken from s.exit is reported as Exit
statusIsExit(rc) == Response(fromExit, << >>, "", rc.code)
\* session.finish, the s.exit case: Error when the status carries an error,
\* Exit with the decoded code otherwise
statusResponse(rc) ==
    IF rc.err # ""
    THEN Response(fromError, << >>, rc.err, WideOf(0))
    ELSE Response(fromExit, << >>, "", rc.code)

(* ------------------------------ session -------------------------------- *)
\* session.finish, case rc := <-s.exit: the terminal response is Exit, or
\* Error for an exit-signal; a goroutine is left to receive from the reaper
FinishExit(c) ==
    /\ ~crashed
    /\ srvpc[c] = "select"
    /\ LET m == cur[c] IN
       /\ exitSt[m].st = "pending"
       /\ final' = [final EXCEPT ![c] = statusResponse(exitSt[m])]
       /\ exitSt' = [exitSt EXCEPT ![m].st = "taken"]
       /\ reaperSt' = [reaperSt EXCEPT ![m] = "leak"]
    /\ srvpc' = [srvpc EXCEPT ![c] = "wait"]
    /\ UNCHANGED << hubVars, conn, alive, hangup, hungup, monpc, monReap, cur,
                    reapers, inbox, agpc, agmsg, send, reading, resp,
                    respClosed, outQ, errQ, handled, agentKeys >>

\* finish goes on without waiting for the drains
wgDoneNoWait(m) == TRUE

\* session.finish: wg.Wait() returns once both drains have emitted all they
\* read and seen the end of their stream (s.channel.Close() came before)
wgDone(m) == outQ[m] = << >> /\ errQ[m] = << >>

FinishWait(c) ==
    /\ ~crashed
    /\ srvpc[c] = "wait"
    /\ wgDone(cur[c])
    /\ srvpc' = [srvpc EXCEPT ![c] = "reply"]
    /\ UNCHANGED << hubVars, conn, alive, hangup, hungup, monpc, monReap, cur,
                    final, reapers, inbox, agpc, agmsg, msgVars, agentKeys >>

\* session.finish: reply <- final, received by the caller of Send
FinishReply(c) ==
    /\ ~crashed
    /\ srvpc[c] = "reply"
    /\ reading[cur[c]]
    /\ resp' = [resp EXCEPT ![cur[c]] = Append(@, final[c])]
    /\ srvpc' = [srvpc EXCEPT ![c] = "close"]
    /\ UNCHANGED << hubVars, conn, alive, hangup, hungup, monpc, monReap, cur,
                    final, reapers, inbox, agpc, agmsg, send, reading,
                    respClosed, outQ, errQ, exitSt, reaperSt, handled, agentKeys >>

\* session.finish: close(reply); run returns nil and Serve takes the next
\* message
FinishClose(c) ==
    /\ ~crashed
    /\ srvpc[c] = "close"
    /\ respClosed' = [respClosed EXCEPT ![cur[c]] = TRUE]
    /\ srvpc' = [srvpc EXCEPT ![c] = "recv"]
    /\ cur' = [cur EXCEPT ![c] = 0]
    /\ final' = [final EXCEPT ![c] = NoFinal]
    /\ UNCHANGED << hubVars, conn, alive, hangup, hungup, monpc, monReap,
                    reapers, inbox, agpc, agmsg, send, reading, resp, outQ,
                    errQ, exitSt, reaperSt, handled, agentKeys >>

\* session.drain on stdout: one Stdout response per scanned line (a send on
\* the closed responses channel would panic)
DrainStdout(m) ==
    /\ ~crashed
    /\ reaperSt[m] # "none"
    /\ outQ[m] # << >>
    /\ reading[m]
    /\ IF respClosed[m]
       THEN panic' = SendOnClosed /\ UNCHANGED << resp, outQ >>
       ELSE /\ resp' = [resp EXCEPT ![m] = Append(@, Response(fromStdout, Head(outQ[m]), "", WideOf(0)))]
            /\ outQ' = [outQ EXCEPT ![m] = Tail(@)]
            /\ UNCHANGED panic
    /\ UNCHANGED << strict, listener, lk, keys, agents, awaits, chClosed, nextCh, hubpc,
                    hubconn, hooks, admin, lastCall, authCalls, handler, connVars, send, reading,
                    respClosed, errQ, exitSt, reaperSt, handled, agentKeys >>

\* session.drain on stderr
DrainStderr(m) ==
    /\ ~crashed
    /\ reaperSt[m] # "none"
    /\ errQ[m] # << >>
    /\ reading[m]
    /\ IF respClosed[m]
       THEN panic' = SendOnClosed /\ UNCHANGED << resp, errQ >>
       ELSE /\ resp' = [resp EXCEPT ![m] = Append(@, Response(fromStderr, Head(errQ[m]), "", WideOf(0)))]
            /\ errQ' = [errQ EXCEPT ![m] = Tail(@)]
            /\ UNCHANGED panic
    /\ UNCHANGED << strict, listener, lk, keys, agents, awaits, chClosed, nextCh, hubpc,
                    hubconn, hooks, admin, lastCall, authCalls, handler, connVars, send, reading,
                    respClosed, outQ, exitSt, reaperSt, handled, agentKeys >>

(* ------------------------------ Agent ---------------------------------- *)
\* AcceptAnyHostKey leaves the KeyMaster of the agent in place
keysKept(ak) == ak

\* Agent.AcceptAnyHostKey: a.keys = nil
keysDiscarded(ak) == [ak EXCEPT !.nil = TRUE, !.recs = NoHostKeys]

AcceptAnyHostKey ==
    /\ agentKeys' = [keysDiscarded(agentKeys) EXCEPT !.since = {}]
    /\ UNCHANGED << hubVars, connVars, msgVars >>

\* Agent.AuthorizeKey: a KeyMaster is made if a.keys is nil, and the key
\* authorized in it for the host
AgentAuthorizeKey(host, key) ==
    /\ agentKeys' = [agentKeys EXCEPT !.nil = FALSE,
                                      !.recs = KMAuthorize(@, key, host),
                                      !.since = @ \cup { << host, key >> }]
    /\ UNCHANGED << hubVars, connVars, msgVars >>

\* KeyMaster.hostKeyCallback: nil for a key authorized for the hostname, the
\* remote address or "*", else "unrecognized host key"
hostKeyCallback(recs, hostname, remote, key) ==
    \/ authorized(recs, hostname, key)
    \/ authorized(recs, remote, key)
    \/ authorized(recs, "*", key)

\* Agent.Connect, the host key check of ssh.NewClientConn: the callback of
\* the KeyMaster if a.keys is not nil, else ssh.InsecureIgnoreHostKey()
VerifyHostKey(hostname, remote, key) ==
    /\ agentKeys' = [agentKeys EXCEPT !.verdict =
                        [host |-> hostname, remote |-> remote, key |-> key,
                         ok |-> IF agentKeys.nil THEN TRUE
                                ELSE hostKeyCallback(agentKeys.recs, hostname,
                                                     remote, key),
                         done |-> TRUE]]
    /\ UNCHANGED << hubVars, connVars, msgVars >>

\* the Handler is called a second time for the same request
handlerCallsTwice(calls, c, value) == Append(Append(calls, << c, value >>), << c, value >>)

\* Agent.Connect: rc, err := handler(payload.Value, ch, ch.Stderr())
handlerCalls(calls, c, value) == Append(calls, << c, value >>)

\* Agent.Connect on an "exec" request: unmarshal the payload and run the
\* Handler, whose output reaches the hub while the transport works
AgentRun(c) ==
    /\ agpc[c] = "exec"
    /\ LET m == agmsg[c]
           p == Unmarshal(Marshal(send[m].payload)) IN
       IF p[1]
       THEN /\ handled' = [handled EXCEPT ![m] = handlerCalls(@, c, p[2])]
            /\ outQ' = [outQ EXCEPT ![m] = IF alive[c] THEN ScanLines(handler.out) ELSE @]
            /\ errQ' = [errQ EXCEPT ![m] = IF alive[c] THEN ScanLines(handler.err) ELSE @]
            /\ agpc' = [agpc EXCEPT ![c] = "ran"]
       ELSE /\ agpc' = [agpc EXCEPT ![c] = "accepted"]
            /\ UNCHANGED << handled, outQ, errQ >>
    /\ UNCHANGED << hubVars, conn, alive, hangup, hungup, monpc, monReap, srvpc,
                    cur, final, reapers, inbox, agmsg, send, reading, resp,
                    respClosed, exitSt, reaperSt, agentKeys >>

\* Agent.Connect: exit-status is sent, the channel closed; a Handler error
\* ends Connect, which closes the transport.  session.serviceRequests
\* decodes the status and offers it on s.exit.
AgentExit(c) ==
    /\ agpc[c] = "ran"
    /\ LET m == agmsg[c] IN
       exitSt' = [exitSt EXCEPT ![m] =
                    IF alive[c] /\ @.st = "none"
                    THEN [st |-> "pending", code |-> exitCode(exited(handler.rc)),
                          err |-> "", seen |-> Append(@.seen, request("exit-status", FALSE))]
                    ELSE @]
    /\ IF handler.fail
       THEN /\ alive' = [alive EXCEPT ![c] = FALSE]
            /\ agpc' = [agpc EXCEPT ![c] = "returned"]
       ELSE /\ agpc' = [agpc EXCEPT ![c] = "wait"]
            /\ UNCHANGED alive
    /\ UNCHANGED << hubVars, conn, hangup, hungup, monpc, monReap, srvpc, cur,
                    final, reapers, inbox, agmsg, send, reading, resp,
                    respClosed, outQ, errQ, reaperSt, handled, agentKeys >>

\* serviceRequests, case "exit-signal": the error text names the signal when
\* there is one
remoteError(sig) ==
    IF sig # "" THEN "remote error (KILL): e" ELSE "remote error: e"

\* the peer ends the command with an exit-signal request in place of the
\* exit-status; serviceRequests offers the error on s.exit and returns
PeerExitSignal(c, sig) ==
    /\ agpc[c] = "ran"
    /\ alive[c]
    /\ LET m == agmsg[c] IN
       /\ exitSt[m].st = "none"
       /\ exitSt' = [exitSt EXCEPT ![m] =
                      [st |-> "pending", code |-> WideOf(0), err |-> remoteError(sig),
                       seen |-> Append(@.seen, request("exit-signal", FALSE))]]
    /\ agpc' = [agpc EXCEPT ![c] = "wait"]
    /\ UNCHANGED << hubVars, conn, alive, hangup, hungup, monpc, monReap, srvpc, cur,
                    final, reapers, inbox, agmsg, send, reading, resp,
                    respClosed, outQ, errQ, reaperSt, handled, agentKeys >>

\* the peer sends a request of another type on the session channel;
\* serviceRequests, default case: Reply(false) when a reply is wanted, and
\* the loop goes on
PeerRequest(c, want) ==
    /\ agpc[c] \in {"exec", "ran"}
    /\ alive[c]
    /\ LET m == agmsg[c] IN
       /\ exitSt[m].st = "none"
       /\ Len(exitSt[m].seen) < MaxOther
       /\ exitSt' = [exitSt EXCEPT ![m].seen = Append(@, request("env", want))]
    /\ UNCHANGED << hubVars, conn, alive, hangup, hungup, monpc, monReap, srvpc, cur,
                    final, reapers, inbox, agpc, agmsg, send, reading, resp,
                    respClosed, outQ, errQ, reaperSt, handled, agentKeys >>

\* a global request that wants a reply is answered true
refusalGrants(kind, want) ==
    IF kind = "channel" THEN "Prohibited"
    ELSE IF want THEN "true" ELSE "none"
\* ignoreNewChannels and ignoreGlobalRequests: a channel is rejected as
\* Prohibited, a global request gets Reply(false), which sends nothing when
\* no reply is wanted
refusal(kind, want) ==
    IF kind = "channel" THEN "Prohibited"
    ELSE IF want THEN "false" ELSE "none"

\* the agent of a served connection opens a channel to the Hub
\* (ignoreNewChannels) or sends it a global request (ignoreGlobalRequests)
PeerAsks(c, kind, want) ==
    /\ srvpc[c] # "idle"
    /\ alive[c]
    /\ Len(conn[c].refused) < MaxRefused
    /\ conn' = [conn EXCEPT ![c].refused =
                    Append(@, [kind |-> kind, want |-> want,
                               answer |-> refusal(kind, want)])]
    /\ UNCHANGED << hubVars, alive, hangup, hungup, monpc, monReap, srvpc, cur,
                    final, reapers, inbox, agpc, agmsg, msgVars, agentKeys >>

\* Agent.Connect: a channel of a type other than "session" arrives while
\* the agent waits for channels; newch.Reject(UnknownChannelType, "buh-bye!")
AgentReject(c) ==
    /\ agpc[c] = "wait"
    /\ alive[c]
    /\ agpc' = [agpc EXCEPT ![c] = "rejected"]
    /\ UNCHANGED << hubVars, conn, alive, hangup, hungup, monpc, monReap, srvpc, cur,
                    final, reapers, inbox, agmsg, msgVars, agentKeys >>

\* Agent.Connect: there is no continue after the Reject, so newch.Accept() is
\* called on the rejected channel; it returns an error, Connect returns nil
\* and its deferred conn.Close() closes the transport
AgentAcceptRejected(c) ==
    /\ agpc[c] = "rejected"
    /\ agpc' = [agpc EXCEPT ![c] = "returned"]
    /\ alive' = [alive EXCEPT ![c] = FALSE]
    /\ UNCHANGED << hubVars, conn, hangup, hungup, monpc, monReap, srvpc, cur,
                    final, reapers, inbox, agmsg, msgVars, agentKeys >>

\* the peer closes the session channel without an exit-status or an
\* exit-signal; the range of serviceRequests over s.requests ends and
\* nothing is offered on s.exit
PeerCloses(c) ==
    /\ agpc[c] \in {"exec", "ran"}
    /\ alive[c]
    /\ LET m == agmsg[c] IN
       /\ exitSt[m].st = "none"
       /\ exitSt' = [exitSt EXCEPT ![m].st = "ended"]
    /\ agpc' = [agpc EXCEPT ![c] = "wait"]
    /\ UNCHANGED << hubVars, conn, alive, hangup, hungup, monpc, monReap, srvpc, cur,
                    final, reapers, inbox, agmsg, send, reading, resp,
                    respClosed, outQ, errQ, reaperSt, handled, agentKeys >>

\* the transport of a connection dies (the peer goes away, the network fails)
TransportDies(c) ==
    /\ alive[c]
    /\ alive' = [alive EXCEPT ![c] = FALSE]
    /\ UNCHANGED << hubVars, conn, hangup, hungup, monpc, monReap, srvpc, cur,
                    final, reapers, inbox, agpc, agmsg, msgVars, agentKeys >>

(* ------------------------------ behaviours ----------------------------- *)
\* the hub of the tests with two agents: strict, K1 authorized for bob and
\* K2 for eve before Listen, agents with the Handler that does nothing
InitDir ==
    InitWith({slack}, {TRUE},
             KMAuthorize(KMAuthorize(NoKeys, "K1", "bob"), "K2", "eve"), TRUE)

Agents == { << "bob", "K1" >>, << "eve", "K2" >> }
\* the Send calls of the directory and authorization scenarios
DirMsgs == {1}

\* the directory: agents come, are served and go; clients await and send
\* (bob and eve are alike, so the first agent to dial in is called bob)
Next ==
    \/ \E c \in Conns, a \in Agents :
          /\ c = 1 => a[1] = "bob"
          /\ Handshake(c, a[1], a[2])
    \/ \E c \in Conns : register(c)
    \/ \E c \in Conns : OnConnect(c)
    \/ \E a \in Idents : Await(a)
    \/ \E m \in DirMsgs, a \in Idents, p \in Payloads : SendLookup(m, a, p)
    \/ \E m \in DirMsgs : SendAuth(m)
    \/ \E m \in DirMsgs : SendEnqueue(m)
    \/ \E m \in DirMsgs : SendTimeout(m)
    \/ \E c \in Conns : MonitorKeepalive(c)
    \/ \E c \in Conns : MonitorHangup(c)
    \/ \E c \in Conns : MonitorClose(c)
    \/ \E c \in Conns : MonitorReap(c)
    \/ \E c \in Conns : RunOpen(c)
    \/ \E c \in Conns : RunStart(c)
    \/ \E c \in Conns : RunAppend(c)
    \/ \E c \in Conns : RunHangup(c)
    \/ \E c \in Conns : FinishExit(c)
    \/ \E c \in Conns : FinishWait(c)
    \/ \E c \in Conns : FinishReply(c)
    \/ \E c \in Conns : FinishClose(c)
    \/ \E c \in Conns : AgentRun(c)
    \/ \E c \in Conns : AgentExit(c)
    \/ \E c \in Conns : TransportDies(c)

Spec == InitDir /\ [][Next]_vars

\* authorization: the operator authorizes and deauthorizes keys while agents
\* dial in and clients send
NextAuth ==
    \/ \E a \in Idents, k \in Keys : AuthorizeKey(a, k)
    \/ \E a \in Idents, k \in Keys : DeauthorizeKey(a, k)
    \/ \E c \in Conns, a \in Idents, k \in Keys : Handshake(c, a, k)
    \/ \E c \in Conns : register(c)
    \/ \E c \in Conns : OnConnect(c)
    \/ \E m \in DirMsgs, a \in Idents : SendLookup(m, a, << >>)
    \/ \E m \in DirMsgs : SendAuth(m)
    \/ \E m \in DirMsgs : SendEnqueue(m)
    \/ \E m \in DirMsgs : SendTimeout(m)

SpecAuth == Init /\ [][NextAuth]_vars

\* the KeyMaster under the handshakes of Hub.Serve and the calls of the
\* operator, with the steps of track apart
NextKeys ==
    \/ \E a \in Idents, k \in Keys : AuthorizeKey(a, k)
    \/ \E a \in Idents, k \in Keys : DeauthorizeKey(a, k)
    \/ \E c \in Conns, a \in Idents, k \in Keys : Handshake(c, a, k)
    \/ \E c \in Conns, a \in Idents, k \in Keys : TrackObserve(c, a, k)
    \/ \E c \in Conns : TrackMake(c)
    \/ \E c \in Conns : TrackCreate(c)
    \/ \E c \in Conns : register(c)
    \/ \E c \in Conns : OnConnect(c)

SpecKeys == Init /\ [][NextKeys]_vars

\* the loop of Hub.Serve over a listener that may fail
NextServe ==
    \/ \E c \in Conns, a \in Idents, k \in Keys : Handshake(c, a, k)
    \/ \E c \in Conns : register(c)
    \/ \E c \in Conns : OnConnect(c)
    \/ AcceptFails
    \/ ListenerCloses

SpecServe == Init /\ [][NextServe]_vars

\* an Agent whose host keys are set up and who dials hubs
NextHost ==
    \/ AcceptAnyHostKey
    \/ \E h \in HostSubjects, k \in HostKeys : AgentAuthorizeKey(h, k)
    \/ \E h \in DialHosts, r \in Remotes, k \in HostKeys : VerifyHostKey(h, r, k)

SpecHost == Init /\ [][NextHost]_vars

\* one agent, bob with K1, and the sessions of its connection
NextSess ==
    \/ Handshake(1, "bob", "K1")
    \/ register(1)
    \/ OnConnect(1)
    \/ \E m \in Msgs : SendLookup(m, "bob", << 104, 105 >>)
    \/ \E m \in Msgs : SendAuth(m)
    \/ \E m \in Msgs : SendEnqueue(m)
    \/ \E m \in Msgs : SendTimeout(m)
    \/ \E m \in Msgs : IgnoreReplies(m)
    \/ MonitorKeepalive(1)
    \/ MonitorHangup(1)
    \/ MonitorClose(1)
    \/ MonitorReap(1)
    \/ RunOpen(1)
    \/ RunStart(1)
    \/ RunAppend(1)
    \/ RunHangup(1)
    \/ FinishExit(1)
    \/ FinishWait(1)
    \/ FinishReply(1)
    \/ FinishClose(1)
    \/ \E m \in Msgs : DrainStdout(m)
    \/ \E m \in Msgs : DrainStderr(m)
    \/ AgentRun(1)
    \/ AgentExit(1)
    \/ TransportDies(1)

SpecSess == InitSess /\ [][NextSess]_vars

\* the sessions of bob's connection when the peer may end a command with
\* exit-signal and may send requests of other types on the session channel
NextPeer ==
    \/ NextSess
    \/ \E sig \in {"", "KILL"} : PeerExitSignal(1, sig)
    \/ \E want \in BOOLEAN : PeerRequest(1, want)

SpecPeer == InitSess /\ [][NextPeer]_vars

\* the sessions of bob's connection when the peer may close the session
\* channel without a status
NextClose ==
    \/ NextSess
    \/ PeerCloses(1)

SpecClose == InitSess /\ [][NextClose]_vars

\* bob's connection with the done closure taken in its two steps, the call
\* of the hook under the mutex and the deletes after it, next to the Hub
\* methods that take the mutex
NextDone ==
    \/ Handshake(1, "bob", "K1")
    \/ register(1)
    \/ OnConnect(1)
    \/ \E a \in Idents : Await(a)
    \/ AuthorizeKey("eve", "K2")
    \/ \E m \in Msgs : SendLookup(m, "bob", << 104, 105 >>)
    \/ \E m \in Msgs : SendAuth(m)
    \/ \E m \in Msgs : SendEnqueue(m)
    \/ \E m \in Msgs : SendTimeout(m)
    \/ MonitorKeepalive(1)
    \/ MonitorDoneCall(1)
    \/ MonitorDoneReturn(1)
    \/ MonitorClose(1)
    \/ MonitorReap(1)
    \/ RunOpen(1)
    \/ RunStart(1)
    \/ RunAppend(1)
    \/ RunHangup(1)
    \/ FinishExit(1)
    \/ FinishWait(1)
    \/ FinishReply(1)
    \/ FinishClose(1)
    \/ AgentRun(1)
    \/ AgentExit(1)
    \/ TransportDies(1)

SpecDone == InitDir /\ [][NextDone]_vars

\* two agents, bob on the first connection and eve on the second, both
\* authorized, and callers that may leave the responses unread
InitTwo ==
    InitWith({slack}, {TRUE},
             KMAuthorize(KMAuthorize(NoKeys, "K1", "bob"), "K2", "eve"), FALSE)

NextTwo ==
    \/ Handshake(1, "bob", "K1")
    \/ Handshake(2, "eve", "K2")
    \/ \E c \in Conns : register(c)
    \/ \E c \in Conns : OnConnect(c)
    \/ \E m \in Msgs, a \in Idents : SendLookup(m, a, << >>)
    \/ \E m \in Msgs : SendAuth(m)
    \/ \E m \in Msgs : SendEnqueue(m)
    \/ \E m \in Msgs : SendTimeout(m)
    \/ \E m \in Msgs : IgnoreReplies(m)
    \/ \E c \in Conns : RunOpen(c)
    \/ \E c \in Conns : RunStart(c)
    \/ \E c \in Conns : RunAppend(c)
    \/ \E c \in Conns : FinishExit(c)
    \/ \E c \in Conns : FinishWait(c)
    \/ \E c \in Conns : FinishReply(c)
    \/ \E c \in Conns : FinishClose(c)
    \/ \E c \in Conns : AgentRun(c)
    \/ \E c \in Conns : AgentExit(c)
    \/ \E c \in Conns : RunHangup(c)
    \/ \E c \in Conns : MonitorKeepalive(c)
    \/ \E c \in Conns : MonitorHangup(c)
    \/ \E c \in Conns : MonitorClose(c)
    \/ \E c \in Conns : MonitorReap(c)
    \/ \E c \in Conns : TransportDies(c)

SpecTwo == InitTwo /\ [][NextTwo]_vars

\* bob's connection when the agent may open channels to the Hub and send it
\* global requests
NextIgnore ==
    \/ NextSess
    \/ PeerAsks(1, "channel", FALSE)
    \/ \E want \in BOOLEAN : PeerAsks(1, "request", want)

SpecIgnore == InitSess /\ [][NextIgnore]_vars

\* bob's agent when the other end may open channels of other types
NextChan ==
    \/ NextSess
    \/ AgentReject(1)
    \/ AgentAcceptRejected(1)

SpecChan == InitSess /\ [][NextChan]_vars

\* the sessions of bob's connection while the operator deauthorizes and
\* authorizes bob's key
NextRevoke ==
    \/ NextSess
    \/ DeauthorizeKey("bob", "K1")
    \/ AuthorizeKey("bob", "K1")

SpecRevoke == InitSess /\ [][NextRevoke]_vars

\* the return codes of the Handlers of SpecExit: both signs, the byte
\* boundaries and the ends of the 32-bit range
ExitCodes ==
    { -2147483647, -65536, -256, -2, -1, 0, 1, 255, 256, 65535, 65536,
      16777215, 16777216, 2147483647 }

\* Handlers that write nothing and return a code of ExitCodes
ExitHandlers == { [slack EXCEPT !.rc = r] : r \in ExitCodes }

\* bob's hub with one of the ExitHandlers behind the agent and callers that
\* receive
InitExit == InitWith(ExitHandlers, {TRUE}, KMAuthorize(NoKeys, "K1", "bob"), TRUE)

\* a command from Send to its Exit response over a transport that works
NextExit ==
    \/ Handshake(1, "bob", "K1")
    \/ register(1)
    \/ OnConnect(1)
    \/ \E m \in Msgs : SendLookup(m, "bob", << 104, 105 >>)
    \/ \E m \in Msgs : SendAuth(m)
    \/ \E m \in Msgs : SendEnqueue(m)
    \/ RunOpen(1)
    \/ RunStart(1)
    \/ RunAppend(1)
    \/ AgentRun(1)
    \/ AgentExit(1)
    \/ FinishExit(1)
    \/ FinishWait(1)
    \/ FinishReply(1)
    \/ FinishClose(1)

SpecExit == InitExit /\ [][NextExit]_vars

\* the sessions of bob's connection with a peer that may reject a channel
\* or refuse the exec request
NextOpen ==
    \/ NextSess
    \/ RunOpenRejected(1)
    \/ RunStartRefused(1)

SpecOpen == InitSess /\ [][NextOpen]_vars

\* what the hub, the agent and a receiving caller do by themselves once they
\* can: every step but the arrival of agents and Sends, the death of a
\* transport and the expiry of a timeout
ProgSess ==
    \/ register(1)
    \/ OnConnect(1)
    \/ \E m \in Msgs : SendAuth(m)
    \/ \E m \in Msgs : SendEnqueue(m)
    \/ \E m \in Msgs : IgnoreReplies(m)
    \/ MonitorKeepalive(1)
    \/ MonitorHangup(1)
    \/ MonitorClose(1)
    \/ MonitorReap(1)
    \/ RunOpen(1)
    \/ RunStart(1)
    \/ RunAppend(1)
    \/ RunHangup(1)
    \/ FinishExit(1)
    \/ FinishWait(1)
    \/ FinishReply(1)
    \/ FinishClose(1)
    \/ \E m \in Msgs : DrainStdout(m)
    \/ \E m \in Msgs : DrainStderr(m)
    \/ AgentRun(1)
    \/ AgentExit(1)

\* the sessions of one connection under a fair scheduler, with callers that
\* receive
FairSess == SpecSess /\ WF_vars(ProgSess)

\* the same scheduler and callers when the peer may close the session
\* channel without a status
FairClose == SpecClose /\ WF_vars(ProgSess)

(* ------------------------------ properties ----------------------------- *)
IsTerminal(r) == r.from \in {fromExit, fromError}

\* the number of terminal responses among the responses of message m
Terminals(m) == Cardinality({ i \in 1..Len(resp[m]) : IsTerminal(resp[m][i]) })

\* the responses channel of m got one terminal response and was closed
Answered(m) == respClosed[m] /\ Terminals(m) = 1

\* C1: on the responses channel of every message, every Stdout and Stderr
\* response comes before the terminal response, there is at most one terminal
\* response (Exit or Error), nothing follows it, and the channel is closed
\* only after the terminal response was sent.
C1_TerminalIsLast ==
    \A m \in Msgs :
        /\ \A i \in 1..Len(resp[m]) : IsTerminal(resp[m][i]) => i = Len(resp[m])
        /\ respClosed[m] => /\ resp[m] # << >>
                            /\ IsTerminal(resp[m][Len(resp[m])])

\* a closed channel that carried a Stdout and a Stderr line, then Exit
C1_Witness ==
    \E m \in Msgs :
        /\ respClosed[m]
        /\ \E i, j \in 1..Len(resp[m]) :
              resp[m][i].from = fromStdout /\ resp[m][j].from = fromStderr
        /\ resp[m][Len(resp[m])].from = fromExit

\* C2: every message the mailbox accepted (Send returned a channel) is in the
\* end answered with exactly one terminal response and the close of its
\* channel, whatever happens after the enqueue.
C2_AcceptedIsAnswered ==
    \A m \in Msgs : (send[m].pc = "ok") ~> Answered(m)

\* the session of message m exists: exec succeeded and finish is not over
InFlight(c, m) ==
    cur[c] = m /\ srvpc[c] \in {"append", "select", "wait", "reply", "close"}

\* connection.monitor has taken the hangup of c
HungUp(c) == monpc[c] \in {"close", "reap", "exit"}

\* C3: a session in flight on a connection that is hung up, at whatever
\* point, is in the end answered with exactly one terminal response and the
\* close of its channel.
C3_HungUpIsAnswered ==
    \A c \in Conns, m \in Msgs : (InFlight(c, m) /\ HungUp(c)) ~> Answered(m)

\* the dispatch loop is through with message m, and the agent holds no exec
\* request of m that its Handler has yet to see
Dispatched(m) ==
    /\ send[m].pc = "ok"
    /\ LET c == send[m].conn IN
       /\ cur[c] # m \/ srvpc[c] = "exit"
       /\ ~(agmsg[c] = m /\ agpc[c] \in {"accepted", "exec"})

\* C4 as stated: every message Send returned a channel for reaches the
\* Handler of the agent under that identity exactly once, with exactly the
\* payload.
C4_HandledExactlyOnce ==
    \A m \in Msgs :
        Dispatched(m) => handled[m] = << << send[m].conn, send[m].payload >> >>

\* C4: the Handler is invoked for a message at most once, only after Send
\* returned a channel for it, only by the agent whose connection Send found
\* under that identity and with exactly the payload given to Send; and it is
\* invoked exactly once if the terminal response of the message is Exit.
C4_HandledAtMostOnce ==
    \A m \in Msgs :
        /\ Len(handled[m]) <= 1
        /\ \A i \in 1..Len(handled[m]) :
              /\ send[m].pc = "ok"
              /\ handled[m][i] = << send[m].conn, send[m].payload >>
              /\ conn[send[m].conn].id = send[m].id
        /\ (\E i \in 1..Len(resp[m]) : resp[m][i].from = fromExit)
              => Len(handled[m]) = 1

\* with bob and eve both in the directory, a payload sent to eve was handled
\* by eve's agent and answered with Exit
C4_Witness ==
    \E m \in Msgs :
        /\ send[m].id = "eve"
        /\ send[m].payload = << 104, 105 >>
        /\ agents["bob"] # 0
        /\ handled[m] = << << send[m].conn, << 104, 105 >> >> >>
        /\ conn[send[m].conn].id = "eve"
        /\ respClosed[m]
        /\ resp[m][Len(resp[m])].from = fromExit

\* C5: in strict mode a connection passes the handshake, and so can be
\* registered under identity I, only if its key was Authorized for exactly I
\* when it dialed in; a key that is unknown, deauthorized or authorized for
\* another identity only is rejected and puts nothing in the directory.
C5_StrictAdmission ==
    strict =>
        /\ \A c \in Conns :
              /\ conn[c].st \in {"handshaken", "registered", "refused"}
                    => conn[c].authed
              /\ conn[c].st = "rejected"
                    => ~conn[c].authed /\ \A i \in Idents : agents[i] # c
        /\ \A i \in Idents :
              KnowsAgent(i) => conn[agents[i]].authed /\ conn[agents[i]].id = i

\* a strict hub has registered one agent and rejected another that offered
\* a key authorized for a different identity only
C5_Witness ==
    /\ strict
    /\ \E c, d \in Conns :
          /\ conn[c].st = "registered"
          /\ conn[d].st = "rejected"
          /\ \E i \in Idents \ {conn[d].id} : keys[conn[d].key][i] = Authorized
          /\ ~KnowsAgent(conn[d].id)

\* the Send of message m leaves the authorization check
AuthChecked(m) == send[m].pc = "auth" /\ send'[m].pc # "auth"

\* C6: in non-strict mode no handshake is rejected; a Send passes the
\* authorization check exactly when the key its connection used is
\* Authorized for the identity at that moment, hence only after AuthorizeKey
\* was called with that identity and that very key, and with no reconnect.
C6_AuthorizeEnablesSend ==
    /\ [](~strict => \A c \in Conns : conn[c].st # "rejected")
    /\ [](\A m \in Msgs :
            send[m].pc \in {"enqueue", "ok", "timeout"}
                => << send[m].id, conn[send[m].conn].regkey >> \in authCalls)
    /\ [][\A m \in Msgs :
            AuthChecked(m) =>
                /\ send'[m].pc \in {"enqueue", "notauth"}
                /\ send'[m].pc = "enqueue"
                      <=> keys[conn[send[m].conn].regkey][send[m].id] = Authorized]_vars

\* a non-strict hub dispatches to a connection whose key was not authorized
\* when it dialed in, after AuthorizeKey was called for its identity with
\* another key and with its own
C6_Witness ==
    /\ ~strict
    /\ \E m \in Msgs :
          /\ send[m].pc = "ok"
          /\ ~conn[send[m].conn].authed
          /\ conn[send[m].conn].st = "registered"
          /\ \E k \in Keys \ {conn[send[m].conn].regkey} :
                << send[m].id, k >> \in authCalls

\* a mailbox has accepted message m
InInbox(m) == \E c \in Conns : \E i \in 1..Len(inbox[c]) : inbox[c][i] = m

\* the Send of message m makes its lookup in the directory
LooksUp(m) == send[m].pc = "idle" /\ send'[m].pc # "idle"

\* C7: a Send to an identity with no directory entry ends at once with "agent
\* not found": it has no connection and no channel, its message is never
\* enqueued, and the directory, the await channels and the authorizations are
\* left as they were.
C7_NotFound ==
    /\ [](\A m \in Msgs :
            send[m].pc = "notfound" =>
                /\ send[m].conn = 0 /\ ~send[m].offer
                /\ ~InInbox(m) /\ \A c \in Conns : cur[c] # m
                /\ resp[m] = << >> /\ ~respClosed[m] /\ handled[m] = << >>)
    /\ [][\A m \in Msgs :
            /\ send[m].pc = "notfound" => send'[m] = send[m]
            /\ LooksUp(m) =>
                  IF KnowsAgent(send'[m].id)
                  THEN send'[m].pc = "auth" /\ send'[m].conn = agents[send'[m].id]
                  ELSE /\ send'[m].pc = "notfound"
                       /\ UNCHANGED << agents, awaits, chClosed, nextCh, keys,
                                       authCalls, inbox >>]_vars

\* a Send to eve found no entry while bob was in the directory
C7_Witness ==
    \E m \in Msgs :
        /\ send[m].pc = "notfound"
        /\ send[m].id = "eve"
        /\ KnowsAgent("bob")

\* C8: a Send that timed out has no channel and its message is not in the
\* mailbox, and never will be: it is not run, not handled and not answered;
\* and a Send whose message the mailbox accepted is not cancelled by the
\* timeout.
C8_TimeoutWithdraws ==
    /\ [](\A m \in Msgs :
            send[m].pc = "timeout" =>
                /\ ~InInbox(m) /\ \A c \in Conns : cur[c] # m
                /\ resp[m] = << >> /\ ~respClosed[m] /\ handled[m] = << >>)
    /\ [][\A m \in Msgs :
            /\ send[m].pc = "timeout" => send'[m].pc = "timeout"
            /\ send[m].pc = "ok" => send'[m].pc = "ok" /\ InInbox(m)]_vars

\* a Send timed out while the connection was busy with an earlier message;
\* the connection is done with that message and waits for the next one
C8_Witness ==
    \E m, n \in Msgs :
        /\ send[m].pc = "timeout"
        /\ send[n].pc = "ok"
        /\ respClosed[n]
        /\ srvpc[send[m].conn] = "recv"
        /\ alive[send[m].conn]

\* connection c is in the directory's hands: registered, its done closure
\* not yet run
Live(c) == conn[c].st = "registered" /\ ~HungUp(c)

\* Hub.register refuses connection c
Refuses(c) == conn[c].st # "refused" /\ conn'[c].st = "refused"

\* C9: no two connections are registered under one identity at a time; a
\* connection that dials in under an identity the directory holds is refused
\* and its transport closed, the entry, the mailboxes, the await channels
\* and the hooks stay as they were, and it is never served.
C9_OneConnectionPerIdentity ==
    /\ [](\A c, d \in Conns :
            c # d /\ Live(c) /\ Live(d) => conn[c].id # conn[d].id)
    /\ [](\A i \in Idents :
            KnowsAgent(i) => Live(agents[i]) /\ conn[agents[i]].id = i)
    /\ [](\A c \in Conns :
            conn[c].st = "refused" =>
                /\ ~alive[c]
                /\ srvpc[c] = "idle" /\ monpc[c] = "idle"
                /\ inbox[c] = << >>
                /\ \A i \in Idents : agents[i] # c
                /\ \A j \in 1..Len(hooks) : hooks[j] # << "connect", c >>
                /\ \A m \in Msgs : send[m].conn # c)
    /\ [][\A c \in Conns :
            Refuses(c) =>
                /\ KnowsAgent(conn[c].id)
                /\ UNCHANGED << agents, awaits, chClosed, nextCh, inbox, hooks,
                                srvpc, monpc, msgVars >>]_vars

\* a second connection under bob's name was refused, and a Send to bob was
\* handled by the first
C9_Witness ==
    \E c \in Conns, m \in Msgs :
        /\ conn[c].st = "refused"
        /\ KnowsAgent(conn[c].id)
        /\ send[m].id = conn[c].id
        /\ send[m].conn = agents[conn[c].id]
        /\ Len(handled[m]) = 1

\* C10: the await channel on record for an identity is closed exactly when
\* the identity has a directory entry, and registration never closes a
\* channel that is closed already.
C10_AwaitClosedIffRegistered ==
    /\ \A i \in Idents :
          (awaits[i] # 0 /\ << i, awaits[i] >> \in chClosed) <=> KnowsAgent(i)
    /\ panic # CloseOfClosed

\* an identity registered again after a disconnect: its first await channel
\* was closed and dropped, and the one on record is another, closed too
C10_Witness ==
    \E i \in Idents :
        /\ KnowsAgent(i)
        /\ awaits[i] > 1
        /\ << i, 1 >> \in chClosed
        /\ << i, awaits[i] >> \in chClosed

\* the Send of message m returns the responses channel
SendReturns(m) == send[m].pc # "ok" /\ send'[m].pc = "ok"

\* the channel Hub.Await(i) returns is closed: there is one on record and it
\* is closed (with none on record Await makes a new, open one)
AwaitClosed(i) == awaits[i] # 0 /\ << i, awaits[i] >> \in chClosed

\* C11: whenever a Send to identity I returns a responses channel, the
\* channel Await(I) returns at that moment is closed, also while I's
\* connection is being torn down.
C11_AwaitClosedAtSend ==
    [][\A m \in Msgs : SendReturns(m) => AwaitClosed(send[m].id)']_vars

\* the done closure takes identity i out of the directory
Deregisters(i) == agents[i] # 0 /\ agents'[i] = 0

\* Hub.register puts identity i in the directory
Registers(i) == agents[i] = 0 /\ agents'[i] # 0

\* C12: the await channel on record for an identity, from Await or from
\* register, stays the one Await returns until the identity is deregistered;
\* deregistration drops it, the channel Await then makes is new and open,
\* and the next registration closes that very channel.
C12_AwaitIdempotent ==
    [][\A i \in Idents :
          /\ (awaits[i] # 0 /\ ~Deregisters(i)) => awaits'[i] = awaits[i]
          /\ Deregisters(i) => awaits'[i] = 0
          /\ (awaits[i] = 0 /\ awaits'[i] # 0) =>
                /\ awaits'[i] = nextCh[i] + 1
                /\ \A n \in 1..nextCh[i] : awaits'[i] # n
                /\ Registers(i) \/ << i, awaits'[i] >> \notin chClosed'
          /\ Registers(i) => << i, awaits'[i] >> \in chClosed']_vars

\* after a registration and a disconnect of an identity Await has made a
\* second channel for it, which is open
C12_Witness ==
    \E i \in Idents :
        /\ ~KnowsAgent(i)
        /\ awaits[i] = 2
        /\ << i, 1 >> \in chClosed
        /\ << i, 2 >> \notin chClosed

\* the number of OnDisconnect calls made for connection c, one per run of
\* its done closure
Disconnects(c) ==
    Cardinality({ j \in 1..Len(hooks) : hooks[j] = << "disconnect", c >> })

\* C13: calling Hangup more than once on a connection is like calling it
\* once: no call sends on the closed hangup channel, and the teardown runs
\* once.
C13_HangupIdempotent ==
    /\ ~(panic = SendOnClosed /\ \E c \in Conns : hangup[c].closed)
    /\ \A c \in Conns : Disconnects(c) <= 1

\* C14: once a connection is torn down (its done closure has run) its
\* mailbox accepts nothing: no Send returns a responses channel for a
\* message handed to such a connection.
C14_NoSendAfterTeardown ==
    [][\A m \in Msgs : SendReturns(m) => ~HungUp(send[m].conn)]_vars

\* the teardown of connection c is complete: done() has run once, the
\* directory no longer holds c, the transport is closed, every reaper of the
\* connection was signalled and closed, and monitor has returned
TornDown(c) ==
    /\ monpc[c] = "exit"
    /\ Disconnects(c) = 1
    /\ \A i \in Idents : agents[i] # c
    /\ ~alive[c]
    /\ \A j \in 1..Len(reapers[c]) : reaperSt[reapers[c][j]] = "closed"

\* C15: after a keepalive of a registered connection has failed, the
\* connection is in the end torn down: done() run once, the identity out of
\* the directory, OnDisconnect called once, the transport closed, every
\* reaper signalled, monitor ended.
C15_KeepaliveFailureTearsDown ==
    \A c \in Conns : (monpc[c] = "stopped") ~> TornDown(c)

\* message m has a session that is not over: its reaper is made and its
\* responses channel is open
SessionLive(m) == reaperSt[m] # "none" /\ ~respClosed[m]

\* C16: a connection has at most one live session, and its dispatch loop
\* takes the next message only when every message it took before has got
\* its terminal response and the close of its channel.
C16_OneLiveSession ==
    \A c \in Conns :
        /\ \A i \in 1..Len(inbox[c]) :
              i < Len(inbox[c]) => Answered(inbox[c][i])
        /\ \A i, j \in 1..Len(inbox[c]) :
              (SessionLive(inbox[c][i]) /\ SessionLive(inbox[c][j])) => i = j

\* the session of the second message of a connection is live, the first
\* message is answered
C16_Witness ==
    \E c \in Conns :
        /\ Len(inbox[c]) = 2
        /\ Answered(inbox[c][1])
        /\ SessionLive(inbox[c][2])
        /\ srvpc[c] = "select"

\* the agent of connection c is at work on the session of message m: it
\* has accepted the channel and not yet sent the exit status
AgentBusy(c, m) == agmsg[c] = m /\ agpc[c] \in {"accepted", "exec", "ran"}

\* C17: the messages of one connection are executed in the order its
\* mailbox accepted them: when the Handler is started for a message, every
\* message accepted before it has its terminal response and closed channel,
\* and the agent is through with it.
C17_MailboxOrder ==
    \A c \in Conns : \A i, j \in 1..Len(inbox[c]) :
        (i < j /\ handled[inbox[c][j]] # << >>) =>
            /\ Answered(inbox[c][i])
            /\ ~AgentBusy(c, inbox[c][i])

\* the mailbox accepted the second Send before the first; both were
\* handled and answered, in the order of acceptance
C17_Witness ==
    \E c \in Conns :
        /\ inbox[c] = << 2, 1 >>
        /\ handled[1] # << >> /\ handled[2] # << >>
        /\ Answered(1) /\ Answered(2)


\* the Send call m is blocked in its select, waiting for the mailbox or for
\* its timeout
SendBlocked(m) == send[m].pc = "enqueue" /\ ~crashed

\* C18: no Hub operation holds the mutex beyond its own step, so the mutex
\* is free whenever a Send is blocked on the mailbox; while a Send is
\* blocked, Await, AuthorizeKey, another Send's lookup, a pending
\* registration and a pending deregistration can each take their step, and
\* the blocked Send itself can always leave by its timeout
C18_SendBlocksWithoutMutex ==
    /\ lk = 0
    /\ \A m \in Msgs : SendBlocked(m) =>
          /\ ENABLED SendTimeout(m)
          /\ \A a \in Idents : awaits[a] = 0 => ENABLED Await(a)
          /\ admin < MaxAdmin =>
                \A a \in Idents : \A k \in Keys : ENABLED AuthorizeKey(a, k)
          /\ \A n \in Msgs : NextSend(n) =>
                \A a \in Idents : ENABLED SendLookup(n, a, << >>)
          /\ hubpc = "register" => ENABLED register(hubconn)
          /\ \A c \in Conns :
                (/\ monpc[c] \in {"select", "stopped"}
                 /\ hangup[c].buf > 0 \/ hangup[c].closed)
                   => ENABLED MonitorHangup(c)

\* a Send is still blocked in its select after the deregistration of the
\* agent it was looked up for has completed
C18_Witness ==
    \E m \in Msgs : /\ SendBlocked(m)
                    /\ ~KnowsAgent(send[m].id)
                    /\ Disconnects(send[m].conn) = 1


\* a call of AuthorizeKey or DeauthorizeKey that repeats the latest call on
\* its pair
RepeatedCall == admin' = admin + 1 /\ lastCall' = lastCall

\* C19: Authorized(s, k) is true iff the latest of the Authorize and
\* Deauthorize calls on (k, s) was Authorize, whatever handshakes came in
\* between, and a call that repeats the latest one changes no record
C19_LatestCallDecides ==
    /\ [](\A k \in Keys : \A s \in Idents :
            authorized(keys, s, k) <=> lastCall[k][s] = "auth")
    /\ [][RepeatedCall => keys' = keys]_vars

\* the disposition of a record has been set by Authorize or Deauthorize
Decided(k, s) == keys[k][s] \in {Authorized, NotAuthorized}

\* C20: a step that is no Authorize or Deauthorize call, the tracking of a
\* key observed in a handshake among them, leaves every Authorized record
\* Authorized and every NotAuthorized record NotAuthorized, and no record
\* that has left Unknown returns to Unknown
C20_ObservationKeepsDisposition ==
    [][\A k \in Keys : \A s \in Idents :
          Decided(k, s) =>
             /\ keys'[k][s] \in {Authorized, NotAuthorized}
             /\ admin' = admin => keys'[k][s] = keys[k][s]]_vars


\* the handshake callback of connection c is inside KeyMaster.track, between
\* its test of the record map and its store into it
InTrack(c) == hubpc = "handshake" /\ hubconn = c

\* a call of KeyMaster.Authorize or KeyMaster.Deauthorize runs
KeyMasterCall == admin' = admin + 1

\* C21: the accesses of the KeyMaster's record map exclude each other: while
\* the handshake callback is tracking an observed key, no Authorize and no
\* Deauthorize runs on the same KeyMaster
C21_KeyMasterExclusive ==
    [][(\E c \in Conns : InTrack(c)) => ~KeyMasterCall]_vars


\* the latest call on the key the connection of Send m registered with, for
\* the identity m is sent to, was AuthorizeKey
KeyInForce(m) ==
    LET k == conn[send[m].conn].regkey IN
    k # NilKey /\ lastCall[k][send[m].id] = "auth"

\* C22: a call of DeauthorizeKey (or AuthorizeKey) leaves the directory, the
\* await channels, the connections, their mailboxes and sessions, the hooks
\* and every Send and response as they were; a Send fails its authorization
\* check exactly when the latest call on its connection's key was not
\* AuthorizeKey
C22_DeauthorizeOnlyFutureSends ==
    [][/\ KeyMasterCall =>
             UNCHANGED << agents, awaits, chClosed, nextCh, hubpc, hubconn, hooks,
                          panic, lk, connVars, msgVars >>
       /\ \A m \in Msgs :
             AuthChecked(m) => (send'[m].pc = "notauth" <=> ~KeyInForce(m))]_vars

\* bob's key was deauthorized while his connection was serving a message: the
\* session goes on, bob is still in the directory, and a later Send has failed
\* as not authorized
C22_Witness ==
    \E m \in Msgs, n \in Msgs :
        /\ InFlight(1, m) /\ srvpc[1] = "select" /\ handled[m] # << >>
        /\ send[n].pc = "notauth"
        /\ lastCall["K1"]["bob"] = "deauth"
        /\ KnowsAgent("bob") /\ Live(1) /\ alive[1]


\* the unsigned 32-bit value w is the integer n
SameInt(w, n) == n >= 0 /\ w = WideOf(n)

\* the Handler returned an error for message m on connection c, after the
\* agent's exit-status for m reached the hub
Halted(c, m) ==
    /\ handler.fail
    /\ agmsg[c] = m
    /\ agpc[c] = "returned"
    /\ exitSt[m].st # "none"

\* the terminal response of message m, once it was sent
TerminalOf(m) == resp[m][Len(resp[m])]

\* C23: when the Handler returns an error, the exit-status with its rc is
\* sent all the same and the responses of the command end with Exit{rc}, not
\* with Error; the agent has closed its transport and runs no other command
C23_HandlerErrorStillExits ==
    \A c \in Conns, m \in Msgs :
        Halted(c, m) =>
           /\ ~alive[c]
           /\ \A n \in Msgs : n # m /\ handled[n] # << >> => Answered(n)
           /\ Terminals(m) = 1 =>
                 /\ TerminalOf(m).from = fromExit
                 /\ SameInt(TerminalOf(m).rc, handler.rc)


\* C24: the code of the terminal Exit response of a command is the integer
\* its Handler returned, whatever its sign and size
C24_ExitCodeRoundTrip ==
    \A m \in Msgs :
        (Terminals(m) = 1 /\ TerminalOf(m).from = fromExit)
            => SameInt(TerminalOf(m).rc, handler.rc)


\* h.listener.Accept() returns an error
AcceptErr == listener'.errs = listener.errs + 1

\* the SSH handshake of connection c fails
HandshakeErr(c) == conn[c].st = "idle" /\ conn'[c].st = "rejected"

\* C25: Hub.Serve goes back to accepting after an Accept that failed on a
\* working listener and after a failed handshake; it returns when Accept
\* fails on a listener that is closed, and only then
C25_ServeReturnsOnListenerFailure ==
    /\ [](hubpc = "returned" => listener.st = "closed")
    /\ [][/\ (AcceptErr /\ listener.st = "open") => hubpc' = "accept"
          /\ (\E c \in Conns : HandshakeErr(c)) => hubpc' = "accept"
          /\ (AcceptErr /\ listener.st = "closed") => hubpc' = "returned"]_vars


\* the host key of the last Connect was authorized, since the last
\* AcceptAnyHostKey, for the dialed hostname, the remote address or "*"
HostKeyKnown ==
    LET v == agentKeys.verdict IN
    \E s \in {v.host, v.remote, "*"} : << s, v.key >> \in agentKeys.since

\* C26: Connect accepts the host key iff no host key was authorized since
\* the last AcceptAnyHostKey, or the presented key was authorized since then
\* for the dialed hostname, the remote address or "*"; and AcceptAnyHostKey
\* leaves no host key authorized
C26_HostKeyAccepted ==
    /\ [][agentKeys'.verdict # agentKeys.verdict =>
             (agentKeys'.verdict.ok <=> (agentKeys'.since = {} \/ HostKeyKnown'))]_vars
    /\ [](agentKeys.since = {} =>
             \A k \in HostKeys, s \in HostSubjects :
                 ~authorized(agentKeys.recs, s, k))

\* since the last AcceptAnyHostKey only H2 was authorized, for the wildcard;
\* a hub that presented H1 was refused
C26_Witness ==
    /\ agentKeys.verdict.done /\ ~agentKeys.verdict.ok
    /\ agentKeys.verdict.key = "H1"
    /\ agentKeys.since = { << "*", "H2" >> }


\* KeyMaster.Authorizations: one entry per record
Authorizations(ks) ==
    { [Identity |-> s, KeyFingerprint |-> k,
       Authorized |-> ks[k][s] = Authorized,
       Known |-> ks[k][s] # UnknownDisposition] :
         << k, s >> \in { ks2 \in Keys \X Idents : ks[ks2[1]][ks2[2]] # NoRecord } }

\* the pair was passed to Authorize or Deauthorize, or a handshake with it
\* has run through its callback (whether accepted or rejected)
Tracked(k, s) ==
    \/ lastCall[k][s] # "none"
    \/ \E c \in Conns : /\ conn[c].st \notin {"idle", "mapping", "tracking"}
                        /\ conn[c].key = k /\ conn[c].id = s

\* C27: Authorizations() lists the pairs passed to Authorize or Deauthorize
\* or observed in a handshake, and no others; an entry has Known false iff
\* its disposition is Unknown and Authorized true iff it is Authorized; no
\* record is ever removed
C27_AuthorizationsComplete ==
    /\ [](\A k \in Keys, s \in Idents :
            (\E e \in Authorizations(keys) :
                e.KeyFingerprint = k /\ e.Identity = s) <=> Tracked(k, s))
    /\ [](\A e \in Authorizations(keys) :
            /\ ~e.Known <=> keys[e.KeyFingerprint][e.Identity] = UnknownDisposition
            /\ e.Authorized <=> keys[e.KeyFingerprint][e.Identity] = Authorized)
    /\ [][\A k \in Keys, s \in Idents :
            keys[k][s] # NoRecord => keys'[k][s] # NoRecord]_vars


\* the connections registered under identity i and not torn down
LiveUnder(i) == { c \in Conns : Live(c) /\ conn[c].id = i }

\* C28: KnowsAgent(i) is true exactly while one connection is registered
\* under i: false at the start, true from the step of Hub.register that
\* takes the connection, false from the step of the teardown of that very
\* connection, and another connection can then register under i
C28_KnowsAgentWhileRegistered ==
    /\ [](\A i \in Idents :
            /\ KnowsAgent(i) <=> Cardinality(LiveUnder(i)) = 1
            /\ KnowsAgent(i) => LiveUnder(i) = { agents[i] })
    /\ [][\A i \in Idents :
            /\ Registers(i) =>
                  \E c \in Conns : /\ c = agents'[i]
                                    /\ conn[c].st = "handshaken"
                                    /\ conn'[c].st = "registered"
                                    /\ conn[c].id = i
            /\ Deregisters(i) =>
                  \E c \in Conns : c = agents[i] /\ ~HungUp(c) /\ HungUp(c)']_vars

\* bob's first connection was torn down, a second one under his name and
\* key is in the directory, and a Send to bob was handled by it
C28_Witness ==
    \E m \in Msgs :
        /\ conn[1].id = "bob" /\ conn[1].st = "registered" /\ HungUp(1)
        /\ agents["bob"] = 2 /\ KnowsAgent("bob")
        /\ send[m].id = "bob" /\ send[m].conn = 2
        /\ handled[m] # << >> /\ Answered(m)


\* connection.run returns the error of c.ssh.OpenChannel for the message of c
OpenFails(c) == srvpc[c] = "open" /\ srvpc'[c] \notin {"open", "start"}

\* C29: when the session channel cannot be opened on a dead transport (EOF)
\* the connection goes on to hang up; when it cannot be opened for another
\* reason the loop does not hang up: a terminal Error is made the answer of
\* the message, to be sent and followed by the close, and the directory
\* entry stays
C29_OpenFailure ==
    [][\A c \in Conns :
          OpenFails(c) =>
             IF alive[c]
             THEN /\ srvpc'[c] = "reply"
                  /\ final'[c].from = fromError
                  /\ UNCHANGED agents
             ELSE srvpc'[c] = "hangup"]_vars


\* session.start returns an error for the message of c
StartFails(c) == srvpc[c] = "start" /\ srvpc'[c] \notin {"start", "append"}

\* C30: when the exec request fails, in transport or by the answer of the
\* peer, an Error response becomes the one answer of the message, to be sent
\* on its responses channel and followed by the close
C30_ExecFailure ==
    [][\A c \in Conns :
          StartFails(c) =>
             /\ final'[c].from = fromError
             /\ final'[c].err # ""
             /\ srvpc'[c] \in {"wait", "reply"}]_vars

\* the type of the first exit-status or exit-signal request that
\* serviceRequests read on the session channel of m, "" when there is none
FirstTerminal(m) ==
    LET seen == exitSt[m].seen
        T == { i \in 1..Len(seen) : seen[i].type \in {"exit-status", "exit-signal"} }
    IN IF T = {} THEN ""
       ELSE seen[CHOOSE i \in T : \A j \in T : i <= j].type

\* C31: a Session's terminal response is Exit{code} iff the first terminal
\* request received on the session channel is exit-status, and Error iff it
\* is exit-signal or the reaper fires first; any other request on the session
\* channel is answered false when a reply is wanted, and neither ends the
\* Session nor produces a response.
C31_TerminalFollowsRequest ==
    /\ [](
        \A m \in Msgs :
            Terminals(m) = 1 =>
                LET t == TerminalOf(m) IN
                /\ t.from = fromExit <=>
                        exitSt[m].st = "taken" /\ FirstTerminal(m) = "exit-status"
                /\ t.from = fromExit => t.rc = exitSt[m].code
                /\ t.from = fromError <=>
                        \/ exitSt[m].st = "taken" /\ FirstTerminal(m) = "exit-signal"
                        \/ exitSt[m].st # "taken"
                /\ t.from = fromError /\ exitSt[m].st # "taken" => t.err = Premature)
    /\ [][\A m \in Msgs :
            ( /\ Len(exitSt'[m].seen) = Len(exitSt[m].seen) + 1
              /\ exitSt'[m].seen[Len(exitSt'[m].seen)].type
                    \notin {"exit-status", "exit-signal"} ) =>
                LET r == exitSt'[m].seen[Len(exitSt'[m].seen)] IN
                /\ r.answer = IF r.want THEN "false" ELSE ""
                /\ exitSt'[m].st = exitSt[m].st
                /\ UNCHANGED << resp, respClosed, final, srvpc, cur, reaperSt >>]_vars

\* a command that got a request of another type wanting a reply, then an
\* exit-signal, was answered with Error
C31_Witness ==
    \E m \in Msgs :
        /\ Answered(m)
        /\ exitSt[m].st = "taken"
        /\ FirstTerminal(m) = "exit-signal"
        /\ TerminalOf(m).from = fromError
        /\ \E i \in 1..Len(exitSt[m].seen) : exitSt[m].seen[i].answer = "false"

\* the lines of what a Handler wrote to one stream: the bytes before each
\* newline, and the bytes after the last newline when there are any
WrittenLines(data) ==
    LET nl == { i \in 1..Len(data) : data[i] = "\n" }
        before(i) == IF \E j \in nl : j < i
                     THEN CHOOSE j \in nl : j < i /\ \A k \in nl : k < i => k <= j
                     ELSE 0
        nth(k) == CHOOSE i \in nl : Cardinality({ j \in nl : j <= i }) = k
        rest == SubSeq(data, before(Len(data) + 1) + 1, Len(data))
    IN [k \in 1..Cardinality(nl) |-> SubSeq(data, before(nth(k)) + 1, nth(k) - 1)]
       \o (IF rest # << >> THEN << rest >> ELSE << >>)

\* the texts of the responses of message m that come from one stream, in the
\* order they were sent
StreamOf(m, whence) ==
    LET ofStream(r) == r.from = whence
        rs == SelectSeq(resp[m], ofStream)
    IN [i \in 1..Len(rs) |-> rs[i].text]

\* s is an initial part of t
IsPrefix(s, t) == Len(s) <= Len(t) /\ s = SubSeq(t, 1, Len(s))

Unread(m) == send[m].pc = "ok" /\ ~reading[m]

C34_RejectKeepsRunning ==
    [][\A c \in Conns :
        agpc[c] = "rejected" /\ agpc'[c] # "rejected" =>
            /\ agpc'[c] = "wait"
            /\ alive'[c] = alive[c]]_vars

\* C35: a new-channel request or a global request sent by a connected agent
\* is refused, the channel as Prohibited and the request with false, and has
\* no effect on the Hub: no Session is made, the connection stays registered
\* and serving, and no response appears on the responses channel of any
\* message.
C35_AgentRequestsRefused ==
    [][\A c \in Conns :
        Len(conn'[c].refused) = Len(conn[c].refused) + 1 =>
            /\ LET r == conn'[c].refused[Len(conn'[c].refused)] IN
               /\ r.kind = "channel" => r.answer = "Prohibited"
               /\ r.kind = "request" /\ r.want => r.answer = "false"
               /\ r.kind = "request" /\ ~r.want => r.answer = "none"
            /\ conn' = [conn EXCEPT ![c].refused = conn'[c].refused]
            /\ UNCHANGED << hubVars, alive, hangup, hungup, monpc, monReap,
                            srvpc, cur, final, reapers, inbox, agpc, agmsg,
                            msgVars >>]_vars

\* the agent of a registered connection was refused, and a command sent to
\* it was answered with Exit
C35_Witness ==
    \E c \in Conns, m \in Msgs :
        /\ conn[c].refused # << >>
        /\ conn[c].st = "registered"
        /\ Answered(m)
        /\ TerminalOf(m).from = fromExit

\* C36: after a connection was torn down, for whatever reason and also when
\* the keepalive failed while the dispatch loop was idle at the mailbox, its
\* dispatch loop terminates: it does not stay blocked on the mailbox and it
\* dispatches no further message.
C36_ServeEndsAfterTeardown ==
    /\ \A c \in Conns : [](TornDown(c) => <>(srvpc[c] = "exit"))
    /\ [][\A c \in Conns : TornDown(c) => inbox'[c] = inbox[c]]_vars

\* C37: a stalled command on agent A, its responses unread or its Send
\* waiting in the select, never delays a Send to another registered and
\* authorized agent B: that Send can make its lookup and its authorization
\* check at once, and its message is accepted as soon as B's own dispatch
\* loop is at its receive.
C37_StallDoesNotDelayOthers ==
    \A m, n \in Msgs, b \in Idents :
        ( /\ m # n
          /\ ~crashed
          /\ (Unread(m) \/ send[m].pc = "enqueue")
          /\ lk \in {0, m}
          /\ agents[b] # 0
          /\ agents[b] # send[m].conn ) =>
            /\ NextSend(n) => ENABLED SendLookup(n, b, << >>)
            /\ send[n].pc = "auth" /\ send[n].conn = agents[b] =>
                  ENABLED SendAuth(n)
            /\ ( /\ send[n].pc = "enqueue"
                 /\ send[n].conn = agents[b]
                 /\ srvpc[agents[b]] = "recv" ) => ENABLED SendEnqueue(n)

\* bob's command is stalled on its unread responses and the command sent to
\* eve after it was answered
C37_Witness ==
    \E m, n \in Msgs :
        /\ Unread(m)
        /\ srvpc[send[m].conn] = "reply"
        /\ send[n].conn # send[m].conn
        /\ Answered(n)
        /\ m < n

\* C38: for every registered connection OnConnect is invoked before
\* OnDisconnect, and each of the two hooks at most once, also when the
\* connection is hung up right after its registration.
C38_ConnectBeforeDisconnect ==
    \A c \in Conns :
        /\ Cardinality({ j \in 1..Len(hooks) : hooks[j] = << "connect", c >> }) <= 1
        /\ Disconnects(c) <= 1
        /\ \A j \in 1..Len(hooks) :
              hooks[j] = << "disconnect", c >> =>
                  \E i \in 1..(j - 1) : hooks[i] = << "connect", c >>

\* C39: OnDisconnect is invoked with the hub mutex held and before the
\* directory entry is deleted: during the callback the identity is still in
\* the directory and no Hub method that takes the mutex can proceed, and the
\* agents and awaits entries are removed only when the callback has
\* returned.
C39_DisconnectUnderLock ==
    /\ [](\A c \in Conns :
            monpc[c] = "done" =>
                /\ lk # 0
                /\ Disconnects(c) = 1
                /\ KnowsAgent(conn[c].id)
                /\ agents[conn[c].id] = c
                /\ awaits[conn[c].id] # 0
                /\ \A m \in Msgs : ~ENABLED SendLookup(m, "bob", << 104, 105 >>)
                /\ \A a \in Idents : ~ENABLED Await(a)
                /\ ~ENABLED AuthorizeKey("eve", "K2")
                /\ \A d \in Conns : ~ENABLED register(d))
    /\ [][\A i \in Idents :
            (Deregisters(i) \/ (awaits[i] # 0 /\ awaits'[i] = 0)) =>
                \E c \in Conns :
                    /\ conn[c].id = i
                    /\ monpc[c] = "done" /\ monpc'[c] # "done"
                    /\ Disconnects(c) = 1]_vars

\* the callback runs for bob's connection while a Send to bob and an Await
\* are waiting for the mutex
C39_Witness ==
    \E c \in Conns, m \in Msgs :
        /\ monpc[c] = "done"
        /\ conn[c].id = "bob"
        /\ NextSend(m)
        /\ awaits["eve"] = 0

\* C40: when the agent closes the session channel, or the request stream of
\* the session ends, with no exit-status and no exit-signal sent and the
\* transport healthy, the Session still ends with a terminal response and
\* the close of the responses channel, under fair scheduling and with a
\* caller that receives.
C40_StreamEndStillTerminates ==
    \A m \in Msgs :
        exitSt[m].st = "ended" ~>
            (Answered(m) \/ \E c \in Conns : c = send[m].conn /\ ~alive[c])

====
